---- MODULE Spec2Model ----
(***************************************************************************)
(* Model of scripts/pdfParsingIRCCodeBook.py: the document-level traversal *)
(* of main() (section stack, accepted ids, section files) and the table    *)
(* continuation controller (pending table, table files).                   *)
(*                                                                         *)
(* A text is a sequence of one-character strings, so that the regular      *)
(* expressions of the source are computed character by character.          *)
(***************************************************************************)
EXTENDS Integers, Sequences, FiniteSets, TLC

\* ------------------------------------------------------------------ bounds
MaxPages == 2
MaxLines == 3

\* ------------------------------------------------------- character classes
UpperChars ==
  {"A","B","C","D","E","F","G","H","I","J","K","L","M",
   "N","O","P","Q","R","S","T","U","V","W","X","Y","Z"}
LowerChars ==
  {"a","b","c","d","e","f","g","h","i","j","k","l","m",
   "n","o","p","q","r","s","t","u","v","w","x","y","z"}
DigitChars == {"0","1","2","3","4","5","6","7","8","9"}
SpaceChars == {" "}
WordChars == UpperChars \cup LowerChars \cup DigitChars \cup {"_"}
LetterChars == UpperChars \cup LowerChars

UpperMap ==
  [a |-> "A", b |-> "B", c |-> "C", d |-> "D", e |-> "E", f |-> "F",
   g |-> "G", h |-> "H", i |-> "I", j |-> "J", k |-> "K", l |-> "L",
   m |-> "M", n |-> "N", o |-> "O", p |-> "P", q |-> "Q", r |-> "R",
   s |-> "S", t |-> "T", u |-> "U", v |-> "V", w |-> "W", x |-> "X",
   y |-> "Y", z |-> "Z"]

\* str.upper() on one character
UpperOf(c) == IF c \in LowerChars THEN UpperMap[c] ELSE c

\* str.upper()
ToUpper(t) == <<>> \o [i \in 1..Len(t) |-> UpperOf(t[i])]

Range(t) == {t[i] : i \in 1..Len(t)}

\* index of the first character at or after i that is not in S (Len+1 if none)
RECURSIVE RunEnd(_, _, _)
RunEnd(t, i, S) ==
  IF i > Len(t) \/ t[i] \notin S THEN i ELSE RunEnd(t, i + 1, S)

\* t has the literal w at position i
HasAt(t, i, w) ==
  \E u \in {t}, v \in {w} :
    /\ i >= 1
    /\ i + Len(v) - 1 <= Len(u)
    /\ \A k \in 1..Len(v) : u[i + k - 1] = v[k]

\* the literal w occurs somewhere in t
Contains(t, w) ==
  \E u \in {t}, v \in {w} : \E i \in 1..(Len(u) + 1) : HasAt(u, i, v)

SubText(t, a, b) == IF a > b THEN <<>> ELSE SubSeq(t, a, b)

\* F(v), with v evaluated once and bound as a value
With(v, F(_)) == CHOOSE r \in {F(x) : x \in {v}} : TRUE

\* (?:\.\d+){0,left} taken greedily from position i: the index after the
\* groups and the index where the last group taken starts (0 when none)
RECURSIVE IdGroups(_, _, _, _)
IdGroups(t, i, left, last) ==
  IF /\ left > 0
     /\ i + 1 <= Len(t)
     /\ t[i] = "."
     /\ t[i + 1] \in DigitChars
  THEN IdGroups(t, RunEnd(t, i + 1, DigitChars), left - 1, i)
  ELSE [end |-> i, last |-> last]

\* [A-Z]{1,3}\d{3,4}(?:\.\d+){0,maxGroups}\b at position i, case-insensitive.
\* Result: the index after the id, 0 when there is no match.  When the
\* greedy end is followed by a word character the engine gives the last
\* group back (the position before its dot is a word boundary); with no
\* group to give back the match fails.
MatchIdAt(t, i, maxGroups) ==
  With(RunEnd(t, i, LetterChars), LAMBDA l :
  With(RunEnd(t, l, DigitChars), LAMBDA d :
  With(IdGroups(t, d, maxGroups, 0), LAMBDA g :
    IF ~(l - i \in 1..3 /\ d - l \in 3..4) THEN 0
    ELSE IF g.end > Len(t) \/ t[g.end] \notin WordChars THEN g.end
    ELSE g.last)))

NoId == <<>>

\* parse_true_section_heading: the id, or NoId for None
parse_true_section_heading(line_text) ==
  With(RunEnd(line_text, 1, SpaceChars), LAMBDA s :
  With(MatchIdAt(line_text, s, 6), LAMBDA e :
  With(IF e = 0 THEN 0 ELSE RunEnd(line_text, e, SpaceChars), LAMBDA r :
    IF e = 0 THEN NoId
    ELSE IF e <= Len(line_text) /\ line_text[e] = "(" THEN NoId
    ELSE IF r > Len(line_text) THEN NoId
    ELSE IF line_text[r] \notin UpperChars THEN NoId
    ELSE SubText(line_text, s, e - 1))))

\* parse_section_marker_line that wants text after the id (\s+ for \b)
parse_section_marker_line_Titled(line_text) ==
  With(RunEnd(line_text, 1, SpaceChars), LAMBDA s :
  With(RunEnd(line_text, s + 7, SpaceChars), LAMBDA b :
  With(IF b > s + 7 THEN MatchIdAt(line_text, b, 6) ELSE 0, LAMBDA e :
    IF /\ HasAt(ToUpper(line_text), s, <<"S","E","C","T","I","O","N">>)
       /\ e # 0
       /\ e <= Len(line_text)
       /\ line_text[e] \in SpaceChars
    THEN SubText(line_text, b, e - 1)
    ELSE NoId)))

\* parse_section_marker_line: the id, or NoId for None
parse_section_marker_line(line_text) ==
  With(RunEnd(line_text, 1, SpaceChars), LAMBDA s :
  With(RunEnd(line_text, s + 7, SpaceChars), LAMBDA b :
  With(IF b > s + 7 THEN MatchIdAt(line_text, b, 6) ELSE 0, LAMBDA e :
    IF HasAt(ToUpper(line_text), s, <<"S","E","C","T","I","O","N">>) /\ e # 0
    THEN SubText(line_text, b, e - 1)
    ELSE NoId)))

\* section_id_depth: number of maximal digit runs in the id
RECURSIVE CountDigitRuns(_, _)
CountDigitRuns(t, i) ==
  IF i > Len(t) THEN 0
  ELSE IF t[i] \in DigitChars
       THEN 1 + CountDigitRuns(t, RunEnd(t, i, DigitChars))
       ELSE CountDigitRuns(t, i + 1)

section_id_depth(section_id) == CountDigitRuns(section_id, 1)

\* has_dot_leaders: (?:\.\s*){3,}
RECURSIVE DotRun(_, _, _)
DotRun(t, i, n) ==
  IF n = 0 THEN TRUE
  ELSE IF i > Len(t) \/ t[i] # "." THEN FALSE
  ELSE DotRun(t, RunEnd(t, i + 1, SpaceChars), n - 1)

has_dot_leaders(text) == \E i \in 1..Len(text) : DotRun(text, i, 3)

\* is_table_of_contents_header: whitespace removed, upper-cased, then searched
RemoveSpaces(t) == SelectSeq(t, LAMBDA c : c \notin SpaceChars)

\* is_table_of_contents_header that searches the text as it stands
is_table_of_contents_header_Raw(text) ==
  Contains(ToUpper(text),
           <<"T","A","B","L","E"," ","O","F"," ","C","O","N","T","E","N","T","S">>)

is_table_of_contents_header(text) ==
  Contains(ToUpper(RemoveSpaces(text)),
           <<"T","A","B","L","E","O","F","C","O","N","T","E","N","T","S">>)

\* TABLE_LABEL_RE on the stripped text:
\*   ^TABLE\s+(<id>(?:\([0-9A-Z]+\))?)\b\.?\s*(.*)?$   (case-insensitive)
\* Result: [ok, from, to], the span of group 1.  The variant in parentheses
\* belongs to the id only when a word character follows it (the \b after
\* the closing parenthesis); otherwise the engine gives it back.
TableLabelMatch(text) ==
  With(RunEnd(text, 1, SpaceChars), LAMBDA s :
  With(RunEnd(text, s + 5, SpaceChars), LAMBDA b :
  With(RunEnd(text, b, LetterChars), LAMBDA l :
  With(RunEnd(text, l, DigitChars), LAMBDA d :
  With(IdGroups(text, d, Len(text), 0), LAMBDA g :
  With(IF g.end <= Len(text) /\ text[g.end] = "("
       THEN RunEnd(text, g.end + 1, LetterChars \cup DigitChars)
       ELSE 0, LAMBDA v :
  With(IF /\ v > g.end + 1
          /\ v <= Len(text)
          /\ text[v] = ")"
          /\ v + 1 <= Len(text)
          /\ text[v + 1] \in WordChars
       THEN v + 1
       ELSE IF g.end > Len(text) \/ text[g.end] \notin WordChars THEN g.end
       ELSE g.last, LAMBDA e :
    IF /\ HasAt(ToUpper(text), s, <<"T","A","B","L","E">>)
       /\ b > s + 5
       /\ l - b \in 1..3
       /\ d - l \in 3..4
       /\ e # 0
    THEN [ok |-> TRUE, from |-> b, to |-> e - 1]
    ELSE [ok |-> FALSE, from |-> 0, to |-> 0])))))))

TABLE_LABEL_RE(text) == TableLabelMatch(text).ok

\* SECTION_HEADER_RE on the stripped text: no dot leaders anywhere, an
\* optional SECTION keyword, an id, then the end or white space and a title
SECTION_HEADER_RE(text) ==
  \E s \in {RunEnd(text, 1, SpaceChars)} :
  \E b \in {RunEnd(text, s + 7, SpaceChars)} :
  \E st \in {IF /\ HasAt(ToUpper(text), s, <<"S","E","C","T","I","O","N">>)
                /\ b > s + 7
             THEN b ELSE s} :
  \E l \in {RunEnd(text, st, LetterChars)} :
  \E d \in {RunEnd(text, l, DigitChars)} :
  \E g \in {IdGroups(text, d, Len(text), 0).end} :
    /\ ~has_dot_leaders(text)
    /\ l - st \in 1..3
    /\ d - l \in 3..4
    /\ g > Len(text) \/ text[g] \in SpaceChars

\* ------------------------------------------------------------ sample inputs
\* Line texts of the document (ordered_lines[i]["text"]).
T_R301   == <<"R","3","0","1"," ","G","e","n">>
T_R301_1 == <<"R","3","0","1",".","1"," ","U","s","e">>
T_R302   == <<"R","3","0","2"," ","F","i","r","e">>
T_Toc    == <<"R","3","0","3"," ","A","i","r"," ",".",".","."," ","R","-","1","2">>
T_Marker == <<"S","E","C","T","I","O","N"," ","R","3","0","1">>
T_Body   == <<"s","h","a","l","l"," ","b","e">>
T_Lower  == <<"R","3","0","1"," ","a","n","d">>
T_Label  == <<"T","A","B","L","E"," ","R","3","0","2",".","1"," ","W","a","l","l">>

Texts == {T_R301, T_R301_1, T_R302, T_Toc, T_Marker, T_Body, T_Lower, T_Label}

\* Page header snippets (header_text_snippet).
H_Plain == <<"2","0","2","1"," ","I","R","C">>
H_Toc   == <<"T","a","b","l","e"," "," ","o","f"," ","C","o","n","t","e","n","t","s">>

H_Amended == <<"U","t","a","h"," ","A","m","e","n","d","m","e","n","t","s">>

Headers == {H_Plain, H_Toc, H_Amended}

COLUMN_MARGIN_TOLERANCE == 3
HEADER_SIZE_DELTA       == 1

\* Column bounds and body font size of a page (column_bounds, body_median_size).
ColumnBounds ==
  [left_x0 |-> 50, right_x0_p5 |-> 300, page_median_char_width |-> 1,
   body_median_size |-> 10]

\* How a line is set on the page: x0, column, font size, bold flag.
LooksHeading == [x0 |-> 50,  column |-> "left",  size |-> 10, bold |-> TRUE]
LooksBody    == [x0 |-> 50,  column |-> "left",  size |-> 10, bold |-> FALSE]
LooksIndent  == [x0 |-> 304, column |-> "right", size |-> 12, bold |-> FALSE]
LooksLarge   == [x0 |-> 303, column |-> "right", size |-> 11, bold |-> FALSE]

Looks == {LooksHeading, LooksBody, LooksIndent, LooksLarge}

MkLine(text, look, role, label, foot) ==
  [text |-> text, x0 |-> look.x0, column |-> look.column,
   size_median |-> look.size, bold |-> look.bold,
   role |-> role, is_label_line |-> label, in_footnote_tops |-> foot]

NoLine == MkLine(<<>>, LooksBody, "none", FALSE, FALSE)

\* The lines a page can hold.  build_ordered_lines gives the role
\* spanning_reference only to lines that do not match SECTION_HEADER_RE; a
\* line is a bound table label only if its text matches TABLE_LABEL_RE; a
\* line's top can be among the footnote tops whatever its text.
Lines ==
  {MkLine(t, LooksHeading, "none", FALSE, f) : t \in Texts, f \in BOOLEAN}
  \cup {MkLine(t, LooksBody, "spanning_reference", FALSE, FALSE) :
          t \in {u \in Texts : ~SECTION_HEADER_RE(u)}}
  \cup {MkLine(t, LooksBody, "none", TRUE, FALSE) :
          t \in {u \in Texts : TABLE_LABEL_RE(u)}}
  \cup {MkLine(t, k, "none", FALSE, FALSE) :
          t \in {T_R301, T_R302, T_Body}, k \in Looks}

\* --------------------------------------------------- header position / style
Abs(n) == IF n < 0 THEN -n ELSE n
Max(a, b) == IF a >= b THEN a ELSE b

header_position_tolerance(column_bounds) ==
  Max(COLUMN_MARGIN_TOLERANCE, column_bounds.page_median_char_width * 3)

is_header_position_any(line, column_bounds) ==
  IF line.column = "right"
  THEN Abs(line.x0 - column_bounds.right_x0_p5)
         <= header_position_tolerance(column_bounds)
  ELSE Abs(line.x0 - column_bounds.left_x0)
         <= header_position_tolerance(column_bounds)

is_header_style(line, body_median_size) ==
  \/ line.bold
  \/ line.size_median >= body_median_size + HEADER_SIZE_DELTA

passes_header_position_style(line, column_bounds, body_median_size) ==
  /\ is_header_position_any(line, column_bounds)
  /\ is_header_style(line, body_median_size)

\* --------------------------------------------------------- amendment scan
\* Page footer snippets (footer_text_snippet).
F_Plain   == <<"E","S","T","A","T","E","S">>
F_Amended == <<"S","t","a","t","e"," ","a","m","e","n","d","e","d">>

Footers == {F_Plain, F_Amended}

AmendmentKeywords ==
  {<<"U","T","A","H">>, <<"S","T","A","T","E">>,
   <<"A","M","E","N","D","E","D">>, <<"M","O","D","I","F","I","E","D">>,
   <<"A","M","E","N","D","M","E","N","T","S">>}

\* AMENDMENT_RE.search(text): \b(?:UTAH|STATE|AMENDED|MODIFIED|AMENDMENTS)\b,
\* case-insensitive
AMENDMENT_RE(text) ==
  \E u \in {ToUpper(text)} :
  \E kw \in AmendmentKeywords :
  \E i \in 1..Len(u) :
    /\ HasAt(u, i, kw)
    /\ (i = 1 \/ u[i - 1] \notin WordChars)
    /\ (i + Len(kw) > Len(u) \/ u[i + Len(kw)] \notin WordChars)

\* scan_for_amendment_indicators: TRUE when it raises AMENDMENT_SCAN
scan_for_amendment_indicators(header, footer) ==
  AMENDMENT_RE(header \o <<" ">> \o footer)

\* ------------------------------------------------------------------ errors
NoError == [rule |-> "NONE", page |-> 0, tagged |-> FALSE]

\* format_error: a message "RULE=<rule> PDF_PAGE=<page> ..."
format_error(rule, page) ==
  [rule |-> rule, page |-> page, tagged |-> TRUE]

\* a RuntimeError raised with a bare text "<name>: ..." (no RULE= prefix)
BareError(name) == [rule |-> name, page |-> 0, tagged |-> FALSE]

\* ensure_error_context that takes every message for an untagged one
ensure_error_context_Untagged(message, page) ==
  format_error("UNHANDLED_EXCEPTION", page)

\* ensure_error_context, applied by the page loop's except clause
ensure_error_context(message, page) ==
  IF message.tagged
  THEN IF message.page = page THEN message
       ELSE format_error(message.rule, page)
  ELSE format_error("UNHANDLED_EXCEPTION", page)

\* ------------------------------------------------------- section files
NL == "\n"

Front(q) == SubSeq(q, 1, Len(q) - 1)
Last(q) == q[Len(q)]

\* "\n".join(parts)
RECURSIVE JoinLines(_)
JoinLines(parts) ==
  IF parts = <<>> THEN <<>>
  ELSE IF Len(parts) = 1 THEN parts[1]
  ELSE parts[1] \o <<NL>> \o JoinLines(Tail(parts))

\* str.splitlines(): the pieces between line breaks, no empty last piece
RECURSIVE SplitLines(_)
SplitLines(content) ==
  IF content = <<>> THEN <<>>
  ELSE LET e == RunEnd(content, 1, {c \in Range(content) : c # NL})
       IN  <<SubText(content, 1, e - 1)>>
             \o SplitLines(SubText(content, e + 1, Len(content)))

\* decimal rendering of a page number
DigitOf(n) ==
  CASE n = 0 -> "0" [] n = 1 -> "1" [] n = 2 -> "2" [] n = 3 -> "3"
    [] n = 4 -> "4" [] n = 5 -> "5" [] n = 6 -> "6" [] n = 7 -> "7"
    [] n = 8 -> "8" [] n = 9 -> "9"

RECURSIVE Decimal(_)
Decimal(n) ==
  IF n < 10 THEN <<DigitOf(n)>> ELSE Decimal(n \div 10) \o <<DigitOf(n % 10)>>

\* range(a, b + 1) as a list
PageRange(a, b) == [i \in 1..(b - a + 1) |-> a + i - 1]

\* format_pdf_pages: "a" or "a-b" (en dash); the failure cases give <<>>
format_pdf_pages(pages) ==
  IF pages = <<>> THEN <<>>
  ELSE IF pages # PageRange(pages[1], Last(pages)) THEN <<>>
  ELSE IF Len(pages) = 1 THEN Decimal(pages[1])
  ELSE Decimal(pages[1]) \o <<"-">> \o Decimal(Last(pages))

CurrentChapter == <<"C","h","a","p","t","e","r"," ","U","n","k","n","o","w","n">>

\* write_section: the text written to section_<id>.txt
write_section(section_id, chapter, pdf_pages, lines) ==
  LET header == << <<"P","D","F","_","P","A","G","E",":"," ">> \o format_pdf_pages(pdf_pages),
                   <<"S","E","C","T","I","O","N","_","I","D",":"," ">> \o section_id,
                   <<"S","E","C","T","I","O","N",":"," ","I","R","C"," ","2","0","2","1"," ","|"," ">> \o chapter \o <<" ","|"," ","S","e","c","t","i","o","n"," ">> \o section_id,
                   <<>> >>
      body == JoinLines(lines)
  IN  JoinLines(header) \o body \o <<NL>>

\* enforce_section_integrity over the files on disk: the rule raised, or
\* "NONE".  files maps each written id to the text of its file.
IntegrityBodyLines(content) ==
  With(SplitLines(content), LAMBDA lines :
  With({i \in 1..Len(lines) : RemoveSpaces(lines[i]) = <<>>}, LAMBDA blanks :
    IF blanks = {} THEN lines
    ELSE SubText(lines, (CHOOSE i \in blanks : \A j \in blanks : i <= j) + 1,
                 Len(lines))))

IntegrityForeignHeading(section_id, content, section_ids) ==
  \E body_lines \in {IntegrityBodyLines(content)} :
  \E k \in 1..Len(body_lines) :
  \E candidate \in {parse_true_section_heading(body_lines[k])} :
    /\ RemoveSpaces(body_lines[k]) # <<>>
    /\ candidate # NoId
    /\ candidate # section_id
    /\ candidate \in section_ids

enforce_section_integrity(section_ids, files) ==
  IF \E id \in section_ids :
       \/ id \notin DOMAIN files
       \/ IntegrityForeignHeading(id, files[id], section_ids)
  THEN "SECTION_INTEGRITY_VIOLATION"
  ELSE "NONE"

\* ------------------------------------------------------------------- state
VARIABLES
  pc,                   \* where main() is: "page", "lines", "flush", "done", "failed"
  page_num,             \* the page being processed (0 before the first)
  page_end,             \* last page of the range
  header_text,          \* header_text_snippet of the page
  footer_text,          \* footer_text_snippet of the page
  lines_read,           \* ordered lines consumed so far, over all pages
  cur_line,             \* the line of ordered_lines handled last
  section_stack,        \* open sections, bottom first
  section_occurrences,  \* accepted id -> page of acceptance
  section_writes,       \* the write_section calls made, in order
  error,                \* the error that ended the run, NoError while none
  pending_table,        \* the pending table, NoTable when none
  last_table_id_by_base,\* base id -> table id seen last
  table_writes,         \* the write_table calls made, in order
  label_lines,          \* label_lines_original of the page: the TABLE captions
  chosen_rotation,      \* the table rotation chosen for the page
  page_tables,          \* tables: the extracted ruled grids of the page
  table_entries,        \* table_entries: the grids bound to their labels
  report,               \* the parse report: page entries, and whether it is on disk
  word,                 \* a word of a page with the page's height and table bboxes
  word_classes,         \* the classes the page analysis puts the word in
  rotation_results,     \* rotation_results: the table evidence of each rotation
  rotation_choice,      \* what extract_tables_with_rotation made of it
  bbox_input,           \* a bbox with the page it lies in and a rotation
  bbox_output           \* the bbox rotated, and rotated back

vars == <<pc, page_num, page_end, header_text, footer_text, lines_read, cur_line,
          section_stack, section_occurrences, section_writes, error,
          pending_table, last_table_id_by_base, table_writes,
          label_lines, chosen_rotation, page_tables, table_entries,
          report, word, word_classes, rotation_results, rotation_choice,
          bbox_input, bbox_output>>

\* the inputs and results of the functions examined on their own
wordVars == <<word, word_classes>>
rotationVars == <<rotation_results, rotation_choice>>
bboxVars == <<bbox_input, bbox_output>>
functionVars == <<wordVars, rotationVars, bboxVars>>

NoWord == [top |-> 0, bottom |-> 0]

Unclassified == {"unclassified"}

WordsIdle ==
  /\ word = NoWord
  /\ word_classes = Unclassified

NotRun == [done |-> FALSE]

RotationIdle ==
  /\ rotation_results = <<>>
  /\ rotation_choice = NotRun

BboxIdle ==
  /\ bbox_input = NotRun
  /\ bbox_output = NotRun

FunctionsIdle ==
  /\ WordsIdle
  /\ RotationIdle
  /\ BboxIdle

sectionVars == <<section_stack, section_occurrences, section_writes>>
tableVars == <<pending_table, last_table_id_by_base, table_writes>>
pageTableVars == <<label_lines, chosen_rotation, page_tables, table_entries>>

NoTable == [table_id |-> <<>>]

\* report = {"pdf_sha256": ..., "warnings": ..., "pages": []}, not yet written
NoReport == [pages |-> <<>>, written |-> FALSE]

\* page_entry of a page, with the message its except clause records
PageEntry(page, errors) == [pdf_page |-> page, errors |-> errors]

\* the files on disk: the last text written under each id
SectionFiles(writes) ==
  [id \in {writes[i].id : i \in 1..Len(writes)} |->
     LET k == CHOOSE i \in 1..Len(writes) :
                /\ writes[i].id = id
                /\ \A j \in 1..Len(writes) : writes[j].id = id => j <= i
     IN  write_section(id, CurrentChapter, writes[k].pdf_pages, writes[k].lines)]

\* one write_section call of main(), for a popped stack entry
SectionWrite(entry) ==
  [id |-> entry.id,
   pdf_pages |-> PageRange(entry.start_page, entry.end_page),
   lines |-> entry.lines]

\* ------------------------------------------------- the section line loop
\* FlushesEntry with "<" for "<=": an open section of the same depth stays
FlushesEntry_Strict(new_depth, candidate_id, top) ==
  /\ new_depth < top.depth
  /\ candidate_id # top.id

\* the condition of the while loop that flushes entries for a new heading
FlushesEntry(new_depth, candidate_id, top) ==
  /\ new_depth <= top.depth
  /\ candidate_id # top.id

RECURSIVE FlushForHeading(_, _, _, _)
FlushForHeading(stack, writes, candidate_id, new_depth) ==
  IF stack # <<>> /\ FlushesEntry(new_depth, candidate_id, Last(stack))
  THEN FlushForHeading(Front(stack), Append(writes, SectionWrite(Last(stack))),
                       candidate_id, new_depth)
  ELSE [stack |-> stack, writes |-> writes]

\* a heading line excluded from section text
HeadingExcluded(line) ==
  \/ line.role = "spanning_reference"
  \/ line.is_label_line
  \/ line.in_footnote_tops

\* HeadingCandidate that also asks for header position and style, while the
\* integrity check keeps judging by the text alone
HeadingCandidate_Styled(line) ==
  IF passes_header_position_style(line, ColumnBounds, ColumnBounds.body_median_size)
  THEN parse_true_section_heading(line.text)
  ELSE NoId

\* the id a line opens a section for (NoId: the line is no heading)
HeadingCandidate(line) == parse_true_section_heading(line.text)

\* AlreadyAccepted without the lookup: the duplicate check never fires
AlreadyAccepted_Never(candidate_id, occurrences) == FALSE

\* the test for an id accepted before
AlreadyAccepted(candidate_id, occurrences) == candidate_id \in DOMAIN occurrences

\* NewEntry without the heading line: the section opens with no body line
NewEntry_NoHeadingLine(candidate_id, line, page) ==
  [id |-> candidate_id, depth |-> section_id_depth(candidate_id),
   lines |-> <<>>, start_page |-> page, end_page |-> page]

NewEntry(candidate_id, line, page) ==
  [id |-> candidate_id, depth |-> section_id_depth(candidate_id),
   lines |-> <<line.text>>, start_page |-> page, end_page |-> page]

\* AppendToTop that leaves end_page as it was
AppendToTop_NoEndPage(stack, text, page) ==
  [stack EXCEPT ![Len(stack)].lines = Append(@, text)]

\* a body line is attributed to the open section on top of the stack
AppendToTop(stack, text, page) ==
  [stack EXCEPT ![Len(stack)].lines = Append(@, text),
                ![Len(stack)].end_page = page]

\* body of "for idx, line in enumerate(ordered_lines)" for one line; st holds
\* the stack, the accepted ids and the writes; err is the exception raised
SectionLineStep(st, line, page, is_toc_page) ==
  With(HeadingCandidate(line), LAMBDA candidate_id :
  With(parse_section_marker_line(line.text), LAMBDA marker_id :
  IF is_toc_page THEN st
  ELSE IF marker_id # NoId THEN
    IF st.stack # <<>>
    THEN [st EXCEPT !.stack = Front(st.stack),
                    !.writes = Append(st.writes, SectionWrite(Last(st.stack)))]
    ELSE st
  ELSE IF candidate_id # NoId THEN
    IF HeadingExcluded(line)
    THEN [st EXCEPT !.err = format_error("SECTION_HEADER_SKIPPED", page)]
    ELSE IF st.stack # <<>> /\ candidate_id = Last(st.stack).id
    THEN [st EXCEPT !.err = BareError("SECTION_APPEND_VIOLATION")]
    ELSE
    With(FlushForHeading(st.stack, st.writes, candidate_id,
                         section_id_depth(candidate_id)), LAMBDA f :
      IF AlreadyAccepted(candidate_id, st.occ)
      THEN [st EXCEPT !.stack = f.stack, !.writes = f.writes,
                      !.err = format_error("SECTION_DUPLICATE", page)]
      ELSE [st EXCEPT
              !.stack = Append(f.stack, NewEntry(candidate_id, line, page)),
              !.writes = f.writes,
              !.occ = [x \in DOMAIN st.occ \cup {candidate_id} |->
                         IF x = candidate_id THEN page ELSE st.occ[x]]])
  ELSE IF line.role = "spanning_reference" THEN st
  ELSE IF line.is_label_line \/ line.in_footnote_tops THEN st
  ELSE IF st.stack # <<>>
  THEN [st EXCEPT !.stack = AppendToTop(st.stack, line.text, page)]
  ELSE st))

\* FlushAll from the bottom of the stack: the oldest open section first
RECURSIVE FlushAll_BottomFirst(_, _)
FlushAll_BottomFirst(stack, writes) ==
  IF stack = <<>> THEN writes
  ELSE FlushAll_BottomFirst(Tail(stack), Append(writes, SectionWrite(Head(stack))))

\* the final flush: "while section_stack: pop, write"
RECURSIVE FlushAll(_, _)
FlushAll(stack, writes) ==
  IF stack = <<>> THEN writes
  ELSE FlushAll(Front(stack), Append(writes, SectionWrite(Last(stack))))

\* ------------------------------------------------- tables: sample inputs
\* TABLE caption lines a page can carry (label_lines_original).
L_Table == <<"T","A","B","L","E"," ","R","3","0","2",".","1"," ","W","A","L","L","S">>
L_Cont  == <<"T","A","B","L","E"," ","R","3","0","2",".","1"," ","C","O","N","T","I","N","U","E","D">>

LabelTexts == {L_Table, L_Cont}

\* Extracted grids: column header row, body rows, touches_bottom.
ShapeTwo   == [columns |-> <<"A","B">>,     rows |-> << <<"1","2">> >>]
ShapeThree == [columns |-> <<"A","B","C">>, rows |-> << <<"1","2","3">> >>]

Shapes == {ShapeTwo, ShapeThree}

RawTables ==
  {[columns |-> sh.columns, rows |-> sh.rows, touches_bottom |-> tb] :
     sh \in Shapes, tb \in BOOLEAN}

Rotations == {0, 90}

\* -------------------------------------------------------- table labels
\* find_table_label_for_bbox, once the geometry has chosen the caption line
\* (NoLabel: no caption line qualifies): table id and CONTINUED flag
NoLabel == <<>>

LabelTableId(label) ==
  With(TableLabelMatch(label), LAMBDA m : SubText(label, m.from, m.to))

LabelContinued(label) ==
  Contains(ToUpper(label), <<"C","O","N","T","I","N","U","E","D">>)

\* f"UNLABELED_P{page_num}_T{table_index}"
UnlabeledId(page, table_index) ==
  <<"U","N","L","A","B","E","L","E","D","_","P">> \o Decimal(page) \o <<"_","T">> \o Decimal(table_index)

\* re.sub(r"\(.*\)$", "", table_id).strip()
BaseId(table_id) ==
  With({i \in 1..Len(table_id) : table_id[i] = "("}, LAMBDA opens :
    IF opens # {} /\ Last(table_id) = ")"
    THEN SubText(table_id, 1, (CHOOSE i \in opens : \A j \in opens : i <= j) - 1)
    ELSE table_id)

\* has_continued_marker(label_lines, table_id)
has_continued_marker(lines, table_id) ==
  \E text \in lines :
    /\ Contains(ToUpper(text), <<"T","A","B","L","E">>)
    /\ Contains(ToUpper(text), ToUpper(table_id))
    /\ Contains(ToUpper(text), <<"C","O","N","T","I","N","U","E","D">>)

\* carryover_label / carryover_label_present of main()
carryover_label_present(lines, table_id) ==
  \E text \in lines :
    /\ TABLE_LABEL_RE(text)
    /\ Contains(ToUpper(text), table_id)

\* one write_table call: the record and the page on which it is made
TableWrite(table_id, pdf_pages, columns, rows, page) ==
  [table_id |-> table_id, pdf_pages |-> pdf_pages, columns |-> columns,
   rows |-> rows, page |-> page]

PendingWrite(pending, page) ==
  TableWrite(pending.table_id, pending.pdf_pages, pending.columns,
             pending.rows, page)

\* the binding loop "for t in tables", for the grid at table_index with the
\* caption line chosen for it: the entry and the updated id map
BindEntry(t, table_index, label, page, rotation, last_by_base) ==
  With(label = NoLabel, LAMBDA unlabeled :
  With(IF unlabeled THEN UnlabeledId(page, table_index)
       ELSE LabelTableId(label), LAMBDA label_id :
  With(BaseId(label_id), LAMBDA base_id :
  With(~unlabeled /\ LabelContinued(label), LAMBDA continued :
    [entry |->
       [table_id |-> IF continued /\ base_id \in DOMAIN last_by_base
                     THEN last_by_base[base_id] ELSE label_id,
        columns |-> t.columns, rows |-> t.rows,
        touches_bottom |-> t.touches_bottom, unlabeled |-> unlabeled,
        rotation |-> rotation, continued |-> continued],
     last_by_base |->
       IF continued THEN last_by_base
       ELSE [b \in DOMAIN last_by_base \cup {base_id} |->
               IF b = base_id THEN label_id ELSE last_by_base[b]]]))))

\* continuation_matches without the comparison of the column headers: a
\* carryover label alone makes a grid of the pending id a match
continuation_matches_AnyColumns(entries, pending, lines) ==
  SelectSeq(entries,
    LAMBDA entry :
      /\ entry.table_id = pending.table_id
      /\ \/ has_continued_marker(lines, pending.table_id)
         \/ carryover_label_present(lines, pending.table_id))

\* continuation_matches of main()
continuation_matches(entries, pending, lines) ==
  SelectSeq(entries,
    LAMBDA entry :
      /\ entry.table_id = pending.table_id
      /\ \/ has_continued_marker(lines, pending.table_id)
         \/ /\ entry.columns = pending.columns
            /\ carryover_label_present(lines, pending.table_id))

\* RemoveFirst that removes nothing: the matched grid stays in the list
RemoveFirst_Keep(entries, entry) == entries

\* list.remove(entry): the first equal element is removed
RemoveFirst(entries, entry) ==
  LET k == CHOOSE i \in 1..Len(entries) :
             /\ entries[i] = entry
             /\ \A j \in 1..(i - 1) : entries[j] # entry
  IN  SubText(entries, 1, k - 1) \o SubText(entries, k + 1, Len(entries))

\* ContinuationMerge without the comparison of the rotations
ContinuationMerge_AnyRotation(ts, entry, page) ==
  With([ts.pending EXCEPT !.rows = @ \o entry.rows,
                          !.pdf_pages = Append(@, page)], LAMBDA merged :
    IF ~entry.touches_bottom
    THEN [ts EXCEPT !.pending = NoTable,
                    !.entries = RemoveFirst(ts.entries, entry),
                    !.writes = Append(ts.writes, PendingWrite(merged, page))]
    ELSE [ts EXCEPT !.pending = merged,
                    !.entries = RemoveFirst(ts.entries, entry)])

\* ContinuationMerge that never writes: the merged table stays pending
\* whether or not the matched grid touches the page bottom
ContinuationMerge_KeepPending(ts, entry, page) ==
  With([ts.pending EXCEPT !.rows = @ \o entry.rows,
                          !.pdf_pages = Append(@, page)], LAMBDA merged :
    IF ts.pending.rotation # entry.rotation
    THEN [ts EXCEPT !.err = format_error("TABLE_CONTINUATION", page)]
    ELSE [ts EXCEPT !.pending = merged,
                    !.entries = RemoveFirst(ts.entries, entry)])

\* ContinuationMerge that appends the page, not the rows of the matched grid
ContinuationMerge_DropRows(ts, entry, page) ==
  With([ts.pending EXCEPT !.pdf_pages = Append(@, page)], LAMBDA merged :
    IF ts.pending.rotation # entry.rotation
    THEN [ts EXCEPT !.err = format_error("TABLE_CONTINUATION", page)]
    ELSE IF ~entry.touches_bottom
    THEN [ts EXCEPT !.pending = NoTable,
                    !.entries = RemoveFirst(ts.entries, entry),
                    !.writes = Append(ts.writes, PendingWrite(merged, page))]
    ELSE [ts EXCEPT !.pending = merged,
                    !.entries = RemoveFirst(ts.entries, entry)])

\* a continuation match: rows and page are appended; the table is written
\* unless the matched grid touches the page bottom
ContinuationMerge(ts, entry, page) ==
  With([ts.pending EXCEPT !.rows = @ \o entry.rows,
                          !.pdf_pages = Append(@, page)], LAMBDA merged :
    IF ts.pending.rotation # entry.rotation
    THEN [ts EXCEPT !.err = format_error("TABLE_CONTINUATION", page)]
    ELSE IF ~entry.touches_bottom
    THEN [ts EXCEPT !.pending = NoTable,
                    !.entries = RemoveFirst(ts.entries, entry),
                    !.writes = Append(ts.writes, PendingWrite(merged, page))]
    ELSE [ts EXCEPT !.pending = merged,
                    !.entries = RemoveFirst(ts.entries, entry)])

\* the block "if pending_table and table_entries"; ts holds pending, the
\* entries and the writes; err is the exception raised
ContinuationStep(ts, lines, page) ==
  IF ts.pending = NoTable \/ ts.entries = <<>> THEN ts
  ELSE
  With(continuation_matches(ts.entries, ts.pending, lines), LAMBDA matches :
    IF has_continued_marker(lines, ts.pending.table_id) /\ matches = <<>>
    THEN [ts EXCEPT !.err = format_error("TABLE_CONTINUATION", page)]
    ELSE IF Len(matches) > 1
    THEN [ts EXCEPT !.err = format_error("TABLE_CONTINUATION", page)]
    ELSE IF matches # <<>> THEN ContinuationMerge(ts, matches[1], page)
    ELSE IF \E i \in 1..Len(ts.entries) :
              ts.entries[i].table_id = ts.pending.table_id
    THEN [ts EXCEPT !.err = format_error("TABLE_CONTINUATION", page)]
    ELSE [ts EXCEPT !.pending = NoTable,
                    !.writes = Append(ts.writes, PendingWrite(ts.pending, page))])

\* EmitStep without the test for a table already pending: a bottom-touching
\* grid takes the pending slot whatever it holds
RECURSIVE EmitStep_Replace(_, _, _)
EmitStep_Replace(ts, k, page) ==
  IF k > Len(ts.entries) THEN ts
  ELSE IF ts.entries[k].touches_bottom
  THEN EmitStep_Replace(
         [ts EXCEPT !.pending =
            [table_id |-> ts.entries[k].table_id,
             columns |-> ts.entries[k].columns,
             rows |-> ts.entries[k].rows, pdf_pages |-> <<page>>,
             rotation |-> ts.entries[k].rotation]],
         k + 1, page)
  ELSE EmitStep_Replace(
         [ts EXCEPT !.writes =
            Append(@, TableWrite(ts.entries[k].table_id, <<page>>,
                                 ts.entries[k].columns, ts.entries[k].rows,
                                 page))],
         k + 1, page)

\* the loop "for entry in table_entries" that makes a bottom-touching table
\* pending and writes the others; it stops at the first exception
RECURSIVE EmitStep(_, _, _)
EmitStep(ts, k, page) ==
  IF k > Len(ts.entries) THEN ts
  ELSE LET entry == ts.entries[k] IN
    IF entry.touches_bottom
    THEN IF ts.pending # NoTable
         THEN [ts EXCEPT !.err = format_error("TABLE_CONTINUATION", page)]
         ELSE EmitStep(
                [ts EXCEPT !.pending =
                   [table_id |-> entry.table_id, columns |-> entry.columns,
                    rows |-> entry.rows, pdf_pages |-> <<page>>,
                    rotation |-> entry.rotation]],
                k + 1, page)
    ELSE EmitStep(
           [ts EXCEPT !.writes =
              Append(@, TableWrite(entry.table_id, <<page>>, entry.columns,
                                   entry.rows, page))],
           k + 1, page)

\* FinalizeStep that does nothing: a pending table passes a page without
\* grids as it is
FinalizeStep_Carry(ts, tables, lines, page) == ts

\* FinalizeStep without the test for a carryover TABLE label
FinalizeStep_MarkerOnly(ts, tables, lines, page) ==
  IF ts.pending = NoTable \/ tables # <<>> THEN ts
  ELSE IF has_continued_marker(lines, ts.pending.table_id)
       THEN [ts EXCEPT !.err = format_error("TABLE_CONTINUATION", page)]
  ELSE [ts EXCEPT !.pending = NoTable,
                  !.writes = Append(ts.writes, PendingWrite(ts.pending, page))]

\* the block "if pending_table and not tables"
FinalizeStep(ts, tables, lines, page) ==
  IF ts.pending = NoTable \/ tables # <<>> THEN ts
  ELSE IF has_continued_marker(lines, ts.pending.table_id)
       THEN [ts EXCEPT !.err = format_error("TABLE_CONTINUATION", page)]
  ELSE IF carryover_label_present(lines, ts.pending.table_id)
       THEN [ts EXCEPT !.err = format_error("TABLE_CONTINUATION", page)]
  ELSE [ts EXCEPT !.pending = NoTable,
                  !.writes = Append(ts.writes, PendingWrite(ts.pending, page))]

\* ---------------------------------------------------------------- actions
MaxTables == 2

\* the lists of grids a page can hold
TableLists ==
  UNION {[1..n -> RawTables] : n \in 0..MaxTables}

Init ==
  /\ pc = "page"
  /\ page_num = 0
  /\ page_end \in 1..MaxPages
  /\ header_text = <<>>
  /\ footer_text = <<>>
  /\ lines_read = 0
  /\ cur_line = NoLine
  /\ section_stack = <<>>
  /\ section_occurrences = <<>>
  /\ section_writes = <<>>
  /\ error = NoError
  /\ pending_table = NoTable
  /\ last_table_id_by_base = <<>>
  /\ table_writes = <<>>
  /\ label_lines = {}
  /\ chosen_rotation = 0
  /\ page_tables = <<>>
  /\ table_entries = <<>>
  /\ report = NoReport
  /\ FunctionsIdle

\* the except clause of the page loop records the message in the entry of
\* the page, appends the entry and writes the report; without an exception
\* the report is left as it is
ReportOnFailure ==
  report' = IF pc' = "failed"
            THEN [pages |-> Append(report.pages, PageEntry(page_num', <<error'>>)),
                  written |-> TRUE]
            ELSE report

\* the except clause of the page loop: the run ends with the tagged message
Fail(message, page) ==
  /\ error' = ensure_error_context(message, page)
  /\ pc' = "failed"

TableState == [pending |-> pending_table, entries |-> table_entries,
               writes |-> table_writes, err |-> NoError]

\* A page begins: header band, caption lines, grids and rotation are read,
\* and a pending table meets a page without grids.
StartPage(headers, tableLists, labelSets) ==
  /\ pc = "page"
  /\ page_num < page_end
  /\ page_num' = page_num + 1
  /\ \E h \in headers, f \in Footers :
       /\ header_text' = h
       /\ footer_text' = f
       /\ IF scan_for_amendment_indicators(h, f)
          THEN /\ label_lines' = {}
               /\ page_tables' = <<>>
               /\ chosen_rotation' = 0
               /\ UNCHANGED <<pending_table, table_writes>>
               /\ Fail(format_error("AMENDMENT_SCAN", page_num + 1), page_num + 1)
          ELSE \E tl \in tableLists, ls \in labelSets, r \in Rotations :
               /\ tl = <<>> => r = 0
               /\ label_lines' = ls
               /\ page_tables' = tl
               /\ chosen_rotation' = r
               /\ \E ts \in {FinalizeStep(TableState, tl, ls, page_num + 1)} :
                    /\ pending_table' = ts.pending
                    /\ table_writes' = ts.writes
                    /\ IF ts.err # NoError THEN Fail(ts.err, page_num + 1)
                       ELSE /\ pc' = IF tl = <<>> THEN "lines" ELSE "bind"
                            /\ error' = error
  /\ table_entries' = <<>>
  /\ cur_line' = NoLine
  /\ UNCHANGED <<page_end, lines_read, sectionVars, last_table_id_by_base>>
  /\ UNCHANGED functionVars
  /\ ReportOnFailure

\* "for t in tables": the next grid is bound to a caption line of the page
BindTable ==
  /\ pc = "bind"
  /\ Len(table_entries) < Len(page_tables)
  /\ \E label \in label_lines \cup {NoLabel} :
     \E b \in {BindEntry(page_tables[Len(table_entries) + 1],
                         Len(table_entries) + 1, label, page_num,
                         chosen_rotation, last_table_id_by_base)} :
       /\ table_entries' = Append(table_entries, b.entry)
       /\ last_table_id_by_base' = b.last_by_base
  /\ UNCHANGED <<pc, page_num, page_end, header_text, footer_text, lines_read, cur_line,
                 sectionVars, error, pending_table, table_writes,
                 label_lines, chosen_rotation, page_tables>>
  /\ UNCHANGED functionVars
  /\ ReportOnFailure

\* "if pending_table and table_entries": merge, finalize or fail
Continuation ==
  /\ pc = "bind"
  /\ Len(table_entries) = Len(page_tables)
  /\ \E ts \in {ContinuationStep(TableState, label_lines, page_num)} :
       /\ pending_table' = ts.pending
       /\ table_entries' = ts.entries
       /\ table_writes' = ts.writes
       /\ IF ts.err # NoError THEN Fail(ts.err, page_num)
          ELSE pc' = "emit" /\ error' = error
  /\ UNCHANGED <<page_num, page_end, header_text, footer_text, lines_read, cur_line,
                 sectionVars, last_table_id_by_base,
                 label_lines, chosen_rotation, page_tables>>
  /\ UNCHANGED functionVars
  /\ ReportOnFailure

\* "for entry in table_entries": write, or keep as pending
EmitTables ==
  /\ pc = "emit"
  /\ \E ts \in {EmitStep(TableState, 1, page_num)} :
       /\ pending_table' = ts.pending
       /\ table_writes' = ts.writes
       /\ IF ts.err # NoError THEN Fail(ts.err, page_num)
          ELSE pc' = "lines" /\ error' = error
  /\ UNCHANGED <<page_num, page_end, header_text, footer_text, lines_read, cur_line,
                 sectionVars, last_table_id_by_base,
                 label_lines, chosen_rotation, page_tables, table_entries>>
  /\ UNCHANGED functionVars
  /\ ReportOnFailure

SectionState == [stack |-> section_stack, occ |-> section_occurrences,
                 writes |-> section_writes, err |-> NoError]

\* one iteration of "for idx, line in enumerate(ordered_lines)"
ProcessLine ==
  /\ pc = "lines"
  /\ lines_read < MaxLines
  /\ lines_read' = lines_read + 1
  /\ \E line \in Lines :
       /\ cur_line' = line
       /\ \E st \in {SectionLineStep(SectionState, line, page_num,
                                      is_table_of_contents_header(header_text))} :
              /\ section_stack' = st.stack
              /\ section_occurrences' = st.occ
              /\ section_writes' = st.writes
              /\ IF st.err # NoError THEN Fail(st.err, page_num)
                 ELSE pc' = pc /\ error' = error
  /\ UNCHANGED <<page_num, page_end, header_text, footer_text, tableVars, pageTableVars>>
  /\ UNCHANGED functionVars
  /\ ReportOnFailure

\* the page is done: the next page, or the end of the range
EndPage ==
  /\ pc = "lines"
  /\ pc' = IF page_num < page_end THEN "page" ELSE "flush"
  /\ cur_line' = NoLine
  /\ label_lines' = {}
  /\ chosen_rotation' = 0
  /\ page_tables' = <<>>
  /\ table_entries' = <<>>
  /\ UNCHANGED <<page_num, page_end, header_text, footer_text, lines_read, sectionVars,
                 error, tableVars>>
  /\ UNCHANGED functionVars
  /\ report' = [report EXCEPT !.pages = Append(@, PageEntry(page_num, <<>>))]

\* Finish without the test of the pending slot
Finish_IgnorePending ==
  /\ pc = "flush"
  /\ \E writes \in {FlushAll(section_stack, section_writes)} :
     \E verdict \in {enforce_section_integrity(DOMAIN section_occurrences,
                                               SectionFiles(writes))} :
         /\ section_stack' = <<>>
         /\ section_writes' = writes
         /\ UNCHANGED section_occurrences
         /\ IF verdict # "NONE"
            THEN error' = BareError(verdict) /\ pc' = "failed"
            ELSE error' = error /\ pc' = "done"
  /\ UNCHANGED <<page_num, page_end, header_text, footer_text, lines_read, cur_line,
                 tableVars, pageTableVars>>
  /\ UNCHANGED functionVars
  /\ report' = [report EXCEPT !.written = TRUE]

\* after the page loop: a pending table is fatal; otherwise the stack is
\* flushed and the written files are checked
Finish ==
  /\ pc = "flush"
  /\ IF pending_table # NoTable
     THEN /\ error' = format_error("TABLE_CONTINUATION",
                                   Last(pending_table.pdf_pages))
          /\ pc' = "failed"
          /\ UNCHANGED sectionVars
     ELSE \E writes \in {FlushAll(section_stack, section_writes)} :
          \E verdict \in {enforce_section_integrity(DOMAIN section_occurrences,
                                                    SectionFiles(writes))} :
              /\ section_stack' = <<>>
              /\ section_writes' = writes
              /\ UNCHANGED section_occurrences
              /\ IF verdict # "NONE"
                 THEN error' = BareError(verdict) /\ pc' = "failed"
                 ELSE error' = error /\ pc' = "done"
  /\ UNCHANGED <<page_num, page_end, header_text, footer_text, lines_read, cur_line,
                 tableVars, pageTableVars>>
  /\ UNCHANGED functionVars
  /\ report' = [report EXCEPT !.written = TRUE]

\* Documents without ruled tables: the section traversal.
SectionsStartPage == StartPage(Headers, {<<>>}, {{}})

Next ==
  \/ SectionsStartPage
  \/ ProcessLine
  \/ EndPage
  \/ Finish

Spec == Init /\ [][Next]_vars

\* Pages without body lines: the table continuation controller.
TablesStartPage == StartPage({H_Plain}, TableLists, SUBSET LabelTexts)

NextTables ==
  \/ TablesStartPage
  \/ BindTable
  \/ Continuation
  \/ EmitTables
  \/ EndPage
  \/ Finish

SpecTables == Init /\ [][NextTables]_vars

\* Tables that run over more than two pages: up to MaxPagesLong pages with at
\* most MaxGridsLong grids each.
MaxPagesLong == 3
MaxGridsLong == 1

LongTableLists ==
  UNION {[1..n -> RawTables] : n \in 0..MaxGridsLong}

InitLong ==
  /\ pc = "page"
  /\ page_num = 0
  /\ page_end \in 1..MaxPagesLong
  /\ header_text = <<>>
  /\ footer_text = <<>>
  /\ lines_read = 0
  /\ cur_line = NoLine
  /\ section_stack = <<>>
  /\ section_occurrences = <<>>
  /\ section_writes = <<>>
  /\ error = NoError
  /\ pending_table = NoTable
  /\ last_table_id_by_base = <<>>
  /\ table_writes = <<>>
  /\ label_lines = {}
  /\ chosen_rotation = 0
  /\ page_tables = <<>>
  /\ table_entries = <<>>
  /\ report = NoReport
  /\ FunctionsIdle

LongStartPage == StartPage({H_Plain}, LongTableLists, SUBSET LabelTexts)

NextLong ==
  \/ LongStartPage
  \/ BindTable
  \/ Continuation
  \/ EmitTables
  \/ EndPage
  \/ Finish

SpecLongTables == InitLong /\ [][NextLong]_vars
\* ------------------------------------------------- page regions of a word
\* main() before its first page, for the functions examined on their own
ProgramIdle ==
  /\ pc = "page"
  /\ page_num = 0
  /\ page_end = 1
  /\ header_text = <<>>
  /\ footer_text = <<>>
  /\ lines_read = 0
  /\ cur_line = NoLine
  /\ section_stack = <<>>
  /\ section_occurrences = <<>>
  /\ section_writes = <<>>
  /\ error = NoError
  /\ pending_table = NoTable
  /\ last_table_id_by_base = <<>>
  /\ table_writes = <<>>
  /\ label_lines = {}
  /\ chosen_rotation = 0
  /\ page_tables = <<>>
  /\ table_entries = <<>>
  /\ report = NoReport

mainVars == <<pc, page_num, page_end, header_text, footer_text, lines_read,
              cur_line, sectionVars, error, tableVars, pageTableVars, report>>

\* page heights, in units that make a tenth of the height a whole number
PageHeights == {10, 20}

\* page_height * HEADER_REGION_RATIO and page_height * (1.0 - FOOTER_REGION_RATIO)
header_limit(page_height) == page_height \div 10
footer_limit(page_height) == page_height - page_height \div 10

\* table_bboxes of a page: (x0, y0, x1, y1) of the retained ruled tables
TableBboxSets == {{}, {<<1, 3, 5, 7>>}}

\* the words and characters of a page: vertical extent, and a left or a
\* right horizontal position
Words ==
  {w \in [top : 0..20, bottom : 0..20, x0 : {1, 7}, x1 : {3, 9},
          page_height : PageHeights, table_bboxes : TableBboxSets] :
     /\ w.top <= w.bottom
     /\ w.bottom <= w.page_height
     /\ w.x1 = w.x0 + 2}

\* inside_any_table: the centre of the word lies in a table bbox (twice the
\* centre is compared, to stay in whole numbers)
inside_any_table(w, table_bboxes) ==
  \E bbox \in table_bboxes :
    /\ 2 * bbox[1] <= w.x0 + w.x1
    /\ w.x0 + w.x1 <= 2 * bbox[3]
    /\ 2 * bbox[2] <= w.top + w.bottom
    /\ w.top + w.bottom <= 2 * bbox[4]

\* split_header_footer_words: membership of header_words and footer_words
InHeaderWords(w) == w.top <= header_limit(w.page_height)
InFooterWords(w) == w.bottom >= footer_limit(w.page_height)

\* chars_no_tables / words_no_tables, and body_chars of main()
InBodyChars(w) ==
  /\ ~inside_any_table(w, w.table_bboxes)
  /\ header_limit(w.page_height) < w.top
  /\ w.top < footer_limit(w.page_height)

ClassesOf(w) ==
  {c \in {"header", "footer", "table", "body"} :
     \/ c = "header" /\ InHeaderWords(w)
     \/ c = "footer" /\ InFooterWords(w)
     \/ c = "table" /\ inside_any_table(w, w.table_bboxes)
     \/ c = "body" /\ InBodyChars(w)}

InitWords ==
  /\ ProgramIdle
  /\ RotationIdle
  /\ BboxIdle
  /\ word \in Words
  /\ word_classes = Unclassified

\* the page analysis sorts the word into its lists
ClassifyWord ==
  /\ word_classes = Unclassified
  /\ word_classes' = ClassesOf(word)
  /\ UNCHANGED <<mainVars, word, rotationVars, bboxVars>>

NextWords == ClassifyWord

SpecWords == InitWords /\ [][NextWords]_vars
\* ------------------------------------------------------- rotation selection
\* rotations = [0, 90, 270]
rotations == <<0, 90, 270>>

\* What get_ruling_lines and detect_ruled_tables give for one rotation: no
\* grid, or one grid with its intersection count (at least
\* TABLE_INTERSECTION_MIN), its area and the number of characters of the
\* matching angle inside it.
NoEvidence ==
  [candidates |-> <<>>, total_intersections |-> 0, total_area |-> 0,
   orientation_score |-> 0]

Evidence ==
  {NoEvidence} \cup
  {[candidates |-> <<[intersection_count |-> n, area |-> a]>>,
    total_intersections |-> n, total_area |-> a, orientation_score |-> s] :
     n \in {4, 6}, a \in {10, 20}, s \in {0, 2}}

\* one entry of rotation_results; each candidate carries the rotation whose
\* frame it was detected in
RotationResult(r, e) ==
  [rotation |-> r,
   candidates |-> [i \in 1..Len(e.candidates) |->
                     [intersection_count |-> e.candidates[i].intersection_count,
                      area |-> e.candidates[i].area, rotation |-> r]],
   total_intersections |-> e.total_intersections,
   total_area |-> e.total_area, orientation_score |-> e.orientation_score]

\* the sort key (orientation_score, total_intersections, total_area,
\* -rotation): a comes after b in the sorted list
RanksAbove(a, b) ==
  \/ a.orientation_score > b.orientation_score
  \/ /\ a.orientation_score = b.orientation_score
     /\ \/ a.total_intersections > b.total_intersections
        \/ /\ a.total_intersections = b.total_intersections
           /\ \/ a.total_area > b.total_area
              \/ /\ a.total_area = b.total_area
                 /\ a.rotation < b.rotation

\* rotation_results.sort(key=...): position k of the sorted list, the
\* element with k - 1 elements below it
SortedResult(results, k) ==
  CHOOSE a \in Range(results) :
    Cardinality({b \in Range(results) : RanksAbove(a, b)}) = k - 1

SameEvidence(a, b) ==
  /\ a.orientation_score = b.orientation_score
  /\ a.total_intersections = b.total_intersections
  /\ a.total_area = b.total_area

\* the return value for the best result, with main()'s reading of it:
\* chosen_rotation None becomes 0, a tie_breaker becomes a warning
RotationReturn(best, tie_breaker) ==
  IF best.total_intersections <= 0
  THEN [done |-> TRUE, error |-> "NONE", chosen_rotation |-> 0,
        tables |-> <<>>, warning |-> tie_breaker]
  ELSE [done |-> TRUE, error |-> "NONE", chosen_rotation |-> best.rotation,
        tables |-> best.candidates, warning |-> tie_breaker]

RotationAmbiguous ==
  [done |-> TRUE, error |-> "TABLE_ROTATION_AMBIGUOUS", chosen_rotation |-> 0,
   tables |-> <<>>, warning |-> FALSE]

\* extract_tables_with_rotation that keeps the top-ranked rotation on a tie
\* of score 0
extract_tables_with_rotation_KeepBest(results) ==
  \E best \in {SortedResult(results, Len(results))},
     second \in {SortedResult(results, Len(results) - 1)} :
    IF best.total_intersections > 0 /\ SameEvidence(best, second)
    THEN IF best.orientation_score = 0 /\ second.orientation_score = 0
         THEN rotation_choice' = RotationReturn(best, TRUE)
         ELSE rotation_choice' = RotationAmbiguous
    ELSE rotation_choice' = RotationReturn(best, FALSE)

\* extract_tables_with_rotation, from the sort of rotation_results on
extract_tables_with_rotation(results) ==
  \E best \in {SortedResult(results, Len(results))},
     second \in {SortedResult(results, Len(results) - 1)} :
    IF best.total_intersections > 0 /\ SameEvidence(best, second)
    THEN IF best.orientation_score = 0 /\ second.orientation_score = 0
         THEN rotation_choice' =
                RotationReturn(CHOOSE c \in Range(results) : c.rotation = 0, TRUE)
         ELSE rotation_choice' = RotationAmbiguous
    ELSE rotation_choice' = RotationReturn(best, FALSE)

InitRotation ==
  /\ ProgramIdle
  /\ WordsIdle
  /\ BboxIdle
  /\ rotation_results \in
       {[i \in 1..Len(rotations) |-> RotationResult(rotations[i], e[i])] :
          e \in [1..Len(rotations) -> Evidence]}
  /\ rotation_choice = NotRun

\* the rotation of the page is chosen
ChooseRotation ==
  /\ ~rotation_choice.done
  /\ extract_tables_with_rotation(rotation_results)
  /\ UNCHANGED <<mainVars, wordVars, bboxVars, rotation_results>>

NextRotation == ChooseRotation

SpecRotation == InitRotation /\ [][NextRotation]_vars

\* ------------------------------------------------------- rotation mapping
\* Coordinates are floats.  The model keeps the format and scales it down:
\* a value is a whole number of units with a significand of MantissaBits
\* bits, and the result of a subtraction is rounded to the nearest such
\* value, ties to the even significand.
MantissaBits == 3

\* the spacing of the representable values at n
RECURSIVE UlpFrom(_, _)
UlpFrom(n, u) == IF n < (2 ^ MantissaBits) * u THEN u ELSE UlpFrom(n, 2 * u)

Ulp(n) == UlpFrom(Abs(n), 1)

Representable(n) == n % Ulp(n) = 0

\* n >= 0 rounded to the nearest representable value, ties to even
RoundNearest(n) ==
  With(Ulp(n), LAMBDA u :
  With(n - (n % u), LAMBDA lo :
    IF 2 * (n - lo) < u THEN lo
    ELSE IF 2 * (n - lo) > u THEN lo + u
    ELSE IF (lo \div u) % 2 = 0 THEN lo ELSE lo + u))

\* a - b on floats
FloatSub(a, b) ==
  IF a >= b THEN RoundNearest(a - b) ELSE 0 - RoundNearest(b - a)

\* page widths and heights: one below the range where every whole number
\* is representable, one above it
PageSizes ==
  {<<(2 ^ MantissaBits) - 2, (2 ^ MantissaBits) + 2>>,
   <<(2 ^ MantissaBits) + 2, (2 ^ MantissaBits) - 2>>}

\* the coordinates a float can hold between 0 and limit
Coordinates(limit) == {n \in 0..limit : Representable(n)}

\* rotation values: the page rotations and 180, an angle characters can have
RotationValues == {0, 90, 180, 270}

\* a bbox (x0, top, x1, bottom) with the size of its page and a rotation
BboxInput(bbox, size, r) ==
  [done |-> TRUE, bbox |-> bbox, width |-> size[1], height |-> size[2],
   rotation |-> r]

RotationInvalid == <<"ROTATION_INVALID">>

rotation_dimensions(width, height, rotation) ==
  IF rotation \in {90, 270} THEN <<height, width>> ELSE <<width, height>>

rotate_point(x, y, width, height, rotation) ==
  IF rotation = 0 THEN <<x, y>>
  ELSE IF rotation = 90 THEN <<FloatSub(height, y), x>>
  ELSE IF rotation = 270 THEN <<y, FloatSub(width, x)>>
  ELSE RotationInvalid

MinOf(values) == CHOOSE v \in values : \A o \in values : v <= o
MaxOf(values) == CHOOSE v \in values : \A o \in values : v >= o

\* rotate_bbox: the hull of the four rotated corners; the exception of
\* rotate_point passes through
rotate_bbox(bbox, width, height, rotation) ==
  With({rotate_point(p[1], p[2], width, height, rotation) :
          p \in {<<bbox[1], bbox[2]>>, <<bbox[3], bbox[2]>>,
                 <<bbox[3], bbox[4]>>, <<bbox[1], bbox[4]>>}}, LAMBDA rotated :
    IF RotationInvalid \in rotated THEN RotationInvalid
    ELSE <<MinOf({p[1] : p \in rotated}), MinOf({p[2] : p \in rotated}),
           MaxOf({p[1] : p \in rotated}), MaxOf({p[2] : p \in rotated})>>)

\* unrotate_bbox that rotates once more by the same rotation
unrotate_bbox_SameRotation(bbox, width, height, rotation) ==
  IF rotation = 0 THEN bbox
  ELSE rotate_bbox(bbox, rotation_dimensions(width, height, rotation)[1],
                   rotation_dimensions(width, height, rotation)[2], rotation)

unrotate_bbox(bbox, width, height, rotation) ==
  IF rotation = 0 THEN bbox
  ELSE rotate_bbox(bbox, rotation_dimensions(width, height, rotation)[1],
                   rotation_dimensions(width, height, rotation)[2],
                   IF rotation = 90 THEN 270 ELSE 90)

\* unrotate_bbox(rotate_bbox(b, width, height, r), width, height, r)
RoundTrip(input) ==
  With(rotate_bbox(input.bbox, input.width, input.height, input.rotation),
       LAMBDA rotated :
    IF rotated = RotationInvalid
    THEN [done |-> TRUE, error |-> "ROTATION_INVALID", rotated |-> <<>>,
          restored |-> <<>>]
    ELSE [done |-> TRUE, error |-> "NONE", rotated |-> rotated,
          restored |-> unrotate_bbox(rotated, input.width, input.height,
                                     input.rotation)])

InitBbox ==
  /\ ProgramIdle
  /\ WordsIdle
  /\ RotationIdle
  /\ \E size \in PageSizes, r \in RotationValues :
     \E x0 \in Coordinates(size[1]), top \in Coordinates(size[2]) :
     \E x1 \in Coordinates(size[1]), bottom \in Coordinates(size[2]) :
       /\ x0 <= x1
       /\ top <= bottom
       /\ bbox_input = BboxInput(<<x0, top, x1, bottom>>, size, r)
  /\ bbox_output = NotRun

\* the bbox is rotated into the frame of the rotation and back
RotateAndBack ==
  /\ ~bbox_output.done
  /\ bbox_output' = RoundTrip(bbox_input)
  /\ UNCHANGED <<mainVars, wordVars, rotationVars, bbox_input>>

NextBbox == RotateAndBack

SpecBbox == InitBbox /\ [][NextBbox]_vars

\* =============================================================== properties
\* a step of the line loop, and the page being a TABLE OF CONTENTS page
IsLineStep == lines_read' = lines_read + 1
OnTocPage == header_text = H_Toc

\* the entries of a stack that carry a given id
EntriesWithId(stack, id) == {i \in 1..Len(stack) : stack[i].id = id}

\* the write_section calls made for a given id
WritesOfId(id) == {i \in 1..Len(section_writes) : section_writes[i].id = id}

\* C1: the open sections are strictly increasing in depth from the bottom of
\* the stack to the top, depth being the number of numeric groups of the id;
\* so a heading is only ever pushed on an empty stack or on a shallower top.
C1_StackDepthsIncrease ==
  \A i \in 1..(Len(section_stack) - 1) :
    /\ section_id_depth(section_stack[i].id)
         < section_id_depth(section_stack[i + 1].id)
    /\ section_stack[i].depth = section_id_depth(section_stack[i].id)

\* a section nested in another, after an earlier section was flushed
C1_Witness ==
  /\ Len(section_stack) >= 2
  /\ section_writes # <<>>

\* C2: when the traversal has finished without a fatal error the stack is
\* empty and every accepted id was written by exactly one write_section
\* call, and nothing else was written.
C2_DoneWritesEachAcceptedOnce ==
  pc = "done" =>
    /\ section_stack = <<>>
    /\ \A id \in DOMAIN section_occurrences : Cardinality(WritesOfId(id)) = 1
    /\ \A i \in 1..Len(section_writes) :
         section_writes[i].id \in DOMAIN section_occurrences

\* a finished run with several sections, one of them left open until the end
C2_Witness ==
  /\ pc = "done"
  /\ Cardinality(DOMAIN section_occurrences) >= 2
  /\ cur_line = NoLine

\* the line of a line-loop step is a heading whose id was accepted before
RepeatsAcceptedId(line) ==
  /\ parse_section_marker_line(line.text) = NoId
  /\ parse_true_section_heading(line.text) # NoId
  /\ parse_true_section_heading(line.text) \in DOMAIN section_occurrences

C4_NoForeignHeadingInBody ==
  /\ error.rule # "SECTION_INTEGRITY_VIOLATION"
  /\ \A i \in 1..Len(section_writes) :
       LET w == section_writes[i] IN
       /\ parse_true_section_heading(w.lines[1]) = w.id
       /\ ~IntegrityForeignHeading(w.id,
             write_section(w.id, CurrentChapter, w.pdf_pages, w.lines),
             DOMAIN section_occurrences)

\* a finished run whose files passed the check, one with body lines
C4_Witness ==
  /\ pc = "done"
  /\ Len(section_writes) >= 2
  /\ \E i \in 1..Len(section_writes) : Len(section_writes[i].lines) >= 2


\* the ids of the open sections, bottom first
StackIds(stack) == [i \in 1..Len(stack) |-> stack[i].id]

\* C5: a line opens a section (its id is accepted and an entry pushed) only
\* if it is in header position and in header style.
C5_HeadingNeedsPositionAndStyle ==
  [][(IsLineStep /\ section_occurrences' # section_occurrences)
       => passes_header_position_style(cur_line', ColumnBounds,
                                       ColumnBounds.body_median_size)]_vars

\* C6: a line with three or more dot leaders never pushes nor pops a stack
\* entry and is never accepted as a heading, on any page.
C6_DotLeaderLineRejected ==
  [][(IsLineStep /\ has_dot_leaders(cur_line'.text))
       => /\ StackIds(section_stack') = StackIds(section_stack)
          /\ section_occurrences' = section_occurrences
          /\ section_writes' = section_writes]_vars

\* C7: while a page whose header reads TABLE OF CONTENTS (whitespace
\* collapsed) is processed, the stack, the accepted ids and the written
\* files stay as they were, whatever its lines are, and no line fails the run.
C7_TocPageLeavesSections ==
  [][(pc = "lines" /\ OnTocPage)
       => /\ UNCHANGED sectionVars
          /\ pc' # "failed"]_vars

\* a heading line was read on a TABLE OF CONTENTS page while a section of an
\* earlier page is open
C7_Witness ==
  /\ pc = "lines"
  /\ OnTocPage
  /\ cur_line.text = T_R302
  /\ cur_line.role = "none"
  /\ section_stack # <<>>
  /\ Last(section_stack).start_page < page_num

\* what a SECTION marker line does to the section state
MarkerEffect ==
  /\ section_occurrences' = section_occurrences
  /\ pc' = pc
  /\ IF section_stack # <<>>
     THEN /\ section_stack' = Front(section_stack)
          /\ Front(section_writes') = section_writes
          /\ Last(section_writes').id = Last(section_stack).id
          /\ Last(section_writes').lines = Last(section_stack).lines
     ELSE /\ section_stack' = section_stack
          /\ section_writes' = section_writes

\* C8 as stated: a SECTION marker line pops and writes exactly the top entry
\* when the stack is non-empty and does nothing when it is empty; it pushes
\* nothing, leaves the entries below the top alone, accepts no id, and its
\* text goes to no section.
C8_Original ==
  [][(IsLineStep /\ cur_line'.text = T_Marker) => MarkerEffect]_vars

\* C8, amended: the same, on a page that is no TABLE OF CONTENTS page (on a
\* TABLE OF CONTENTS page the marker line is skipped like every other line).
C8_MarkerPopsTop ==
  [][(IsLineStep /\ ~OnTocPage /\ cur_line'.text = T_Marker)
       => MarkerEffect]_vars

\* a marker line has popped and written the nested section; its parent is
\* still open
C8_Witness ==
  /\ pc = "lines"
  /\ ~OnTocPage
  /\ cur_line.text = T_Marker
  /\ section_stack # <<>>
  /\ section_writes # <<>>
  /\ Last(section_writes).lines[1] = T_R301_1

\* a line the section loop attributes to running text
PlainBodyLine(line) ==
  /\ parse_true_section_heading(line.text) = NoId
  /\ parse_section_marker_line(line.text) = NoId
  /\ line.role # "spanning_reference"
  /\ ~line.is_label_line
  /\ ~line.in_footnote_tops

\* C9 as stated: on a page that is no TABLE OF CONTENTS page every such line
\* is appended to the entry on top of the stack; none is lost.
C9_Original ==
  [][(IsLineStep /\ ~OnTocPage /\ PlainBodyLine(cur_line'))
       => /\ section_stack' # <<>>
          /\ Last(Last(section_stack').lines) = cur_line'.text
          /\ Last(section_stack').end_page = page_num]_vars

\* C9, amended: when a section is open the line is appended to the entry on
\* top of the stack and to no other, and that entry's end_page becomes the
\* current page; when no section is open the line is attributed to no
\* section.  Nothing is written or accepted, and the run goes on.
C9_BodyLineGoesToTop ==
  [][(IsLineStep /\ ~OnTocPage /\ PlainBodyLine(cur_line'))
       => /\ section_occurrences' = section_occurrences
          /\ section_writes' = section_writes
          /\ pc' = pc
          /\ IF section_stack = <<>>
             THEN section_stack' = <<>>
             ELSE /\ Front(section_stack') = Front(section_stack)
                  /\ Len(section_stack') = Len(section_stack)
                  /\ Last(section_stack') =
                       [Last(section_stack) EXCEPT
                          !.lines = Append(@, cur_line'.text),
                          !.end_page = page_num]]_vars

\* a body line was appended to a nested section opened on an earlier page
C9_Witness ==
  /\ pc = "lines"
  /\ PlainBodyLine(cur_line)
  /\ cur_line.text = T_Body
  /\ Len(section_stack) >= 2
  /\ Last(Last(section_stack).lines) = T_Body
  /\ Last(section_stack).start_page < Last(section_stack).end_page

\* C10: over a whole run write_table is never called twice for the same
\* table id.
C10_TableWrittenOnce ==
  \A i, j \in 1..Len(table_writes) :
    table_writes[i].table_id = table_writes[j].table_id => i = j

\* ------------------------------------------------------ table continuation
\* the grids of the page that touch the page bottom and are still to be emitted
BottomEntries == {i \in 1..Len(table_entries) : table_entries[i].touches_bottom}

\* the write_table calls made by the step
NewTableWrites ==
  SubText(table_writes', Len(table_writes) + 1, Len(table_writes'))

\* new (a pending table or a written one) continues the pending table old:
\* same id and columns, the rows and the pages of old come first
ExtendsPending(old, new) ==
  /\ new # NoTable
  /\ new.table_id = old.table_id
  /\ new.columns = old.columns
  /\ Len(new.rows) >= Len(old.rows)
  /\ SubText(new.rows, 1, Len(old.rows)) = old.rows
  /\ Len(new.pdf_pages) >= Len(old.pdf_pages)
  /\ SubText(new.pdf_pages, 1, Len(old.pdf_pages)) = old.pdf_pages

\* C11: the pending slot is never silently overwritten.  A table that is
\* pending before a step is, after it, still pending (possibly grown by a
\* merge), or written by that step, or the run has failed; and when the
\* grids of a page are emitted while a table is pending, or two of them
\* touch the page bottom, the run fails with TABLE_CONTINUATION.
C11_PendingNeverReplaced ==
  [][/\ pending_table # NoTable
          => \/ ExtendsPending(pending_table, pending_table')
             \/ pc' = "failed"
             \/ /\ pending_table' = NoTable
                /\ \E i \in 1..Len(NewTableWrites) :
                     ExtendsPending(pending_table, NewTableWrites[i])
     /\ (pc = "emit" /\ Cardinality(BottomEntries)
                          + (IF pending_table = NoTable THEN 0 ELSE 1) >= 2)
          => /\ pc' = "failed"
             /\ error'.rule = "TABLE_CONTINUATION"
             /\ error'.page = page_num]_vars

\* the run failed where a grid touching the bottom met a merged continuation
\* that is itself still pending
C11_Witness ==
  /\ pc = "failed"
  /\ error.rule = "TABLE_CONTINUATION"
  /\ pending_table # NoTable
  /\ Len(pending_table.pdf_pages) = 2
  /\ BottomEntries # {}

\* the caption lines of the page that name table id: a CONTINUED marker, and
\* a TABLE label carried over to the page
ContinuedMarkerFor(id) ==
  \E text \in label_lines :
    /\ TABLE_LABEL_RE(text)
    /\ LabelTableId(text) = id
    /\ LabelContinued(text)

CarryoverLabelFor(id) ==
  \E text \in label_lines : TABLE_LABEL_RE(text) /\ LabelTableId(text) = id

\* continuation of the pending table by the grid is provable
ProvenContinuation(entry) ==
  /\ entry.table_id = pending_table.table_id
  /\ \/ ContinuedMarkerFor(pending_table.table_id)
     \/ /\ entry.columns = pending_table.columns
        /\ CarryoverLabelFor(pending_table.table_id)

\* the continuation block is about to run with a table pending
AtContinuation ==
  /\ pc = "bind"
  /\ Len(table_entries) = Len(page_tables)
  /\ pending_table # NoTable

\* what the continuation block leaves of the pending table: the table still
\* pending, or the record written for it
AfterContinuation ==
  IF pending_table' # NoTable THEN pending_table'
  ELSE IF NewTableWrites # <<>> THEN NewTableWrites[1]
  ELSE pending_table

ProvenEntries ==
  {i \in 1..Len(table_entries) : ProvenContinuation(table_entries[i])}

\* the run ends here with TABLE_CONTINUATION, nothing merged or written
FailsUnmerged ==
  /\ pc' = "failed"
  /\ error'.rule = "TABLE_CONTINUATION"
  /\ error'.page = page_num
  /\ pending_table' = pending_table
  /\ table_writes' = table_writes

\* C13: with a table pending and grids on the page, the continuation block
\* ends the run with TABLE_CONTINUATION, the pending table unchanged and
\* nothing written, when more than one grid qualifies as the continuation,
\* when a CONTINUED marker for the pending id is on the page and no grid
\* qualifies, and when the one qualifying grid has another rotation than
\* the pending table.
C13_AmbiguousContinuationFails ==
  [][(/\ AtContinuation
      /\ \/ Cardinality(ProvenEntries) > 1
         \/ /\ ContinuedMarkerFor(pending_table.table_id)
            /\ ProvenEntries = {}
         \/ \E i \in ProvenEntries :
              /\ ProvenEntries = {i}
              /\ table_entries[i].rotation # pending_table.rotation)
       => FailsUnmerged]_vars

\* the run ended on a rotation mismatch of the single match
C13_Witness ==
  /\ pc = "failed"
  /\ error.rule = "TABLE_CONTINUATION"
  /\ pending_table # NoTable
  /\ Len(table_entries) = Len(page_tables)
  /\ \E i \in ProvenEntries :
       /\ ProvenEntries = {i}
       /\ table_entries[i].rotation # pending_table.rotation

C13_WitnessTwoMatches ==
  /\ pc = "failed"
  /\ pending_table # NoTable
  /\ Len(table_entries) = Len(page_tables)
  /\ Cardinality(ProvenEntries) > 1

C13_WitnessMarkerAlone ==
  /\ pc = "failed"
  /\ pending_table # NoTable
  /\ page_tables # <<>>
  /\ Len(table_entries) = Len(page_tables)
  /\ ContinuedMarkerFor(pending_table.table_id)
  /\ ProvenEntries = {}

\* a page that passes the amendment scan and has no grids begins while a
\* table is pending
GridlessPageWithPending ==
  /\ pc = "page"
  /\ page_num' = page_num + 1
  /\ pending_table # NoTable
  /\ ~scan_for_amendment_indicators(header_text', footer_text')
  /\ page_tables' = <<>>

\* the page that begins carries a TABLE caption naming the pending id, be it
\* a CONTINUED marker or a carried-over label
PendingIdCaptioned ==
  \E text \in label_lines' :
    /\ TABLE_LABEL_RE(text)
    /\ LabelTableId(text) = pending_table.table_id

C14_WitnessCaption ==
  /\ pc = "failed"
  /\ page_num = 2
  /\ page_tables = <<>>
  /\ pending_table # NoTable
  /\ label_lines = {L_Table}

\* the grids of the page that do not touch the page bottom
OpenEntries == {i \in 1..Len(table_entries) : ~table_entries[i].touches_bottom}

\* the list of grids without the grid at position i
EntriesWithout(i) ==
  SubText(table_entries, 1, i - 1) \o SubText(table_entries, i + 1, Len(table_entries))

CarriedIntoPage ==
  (IF pending_table # NoTable /\ pending_table.pdf_pages[1] < page_num
   THEN {pending_table.table_id} ELSE {})
  \cup {table_writes[i].table_id : i \in
          {j \in 1..Len(table_writes) :
             /\ table_writes[j].page = page_num
             /\ table_writes[j].pdf_pages[1] < page_num}}

\* C16: a page on which a table was pending does not get through its table
\* phase when one of its grids has the pending table's id and was not merged
\* into it: once the page's grids are emitted (the run has not failed), no
\* grid left in the list of grids to emit carries the id of a table that was
\* pending when the page began, whether or not another grid was merged.
C16_UnmergedSameIdGridIsFatal ==
  pc = "lines" =>
    \A i \in 1..Len(table_entries) :
      table_entries[i].table_id \notin CarriedIntoPage

\* the same, for pages on which no grid was merged into the pending table
C16_UnmatchedSameIdGridIsFatal ==
  pc = "lines" =>
    \A j \in 1..Len(table_writes) :
      (/\ table_writes[j].page = page_num
       /\ Last(table_writes[j].pdf_pages) < page_num)
      => \A i \in 1..Len(table_entries) :
           table_entries[i].table_id # table_writes[j].table_id

\* C17: a table still pending after the last page ends the run with
\* TABLE_CONTINUATION, and the table is not written; the run ends
\* successfully only with the pending slot empty.
C17_PendingAtEndIsFatal ==
  [][/\ (pc = "flush" /\ pending_table # NoTable)
          => /\ pc' = "failed"
             /\ error'.rule = "TABLE_CONTINUATION"
             /\ table_writes' = table_writes
     /\ pc' = "done" => (pending_table = NoTable /\ pending_table' = NoTable)]_vars

\* the run failed after its last page, a table pending
C17_Witness ==
  /\ pc = "failed"
  /\ error.rule = "TABLE_CONTINUATION"
  /\ page_num = page_end
  /\ page_tables = <<>>
  /\ label_lines = {}
  /\ pending_table # NoTable
  /\ \A i \in 1..Len(table_writes) :
       table_writes[i].table_id # pending_table.table_id

\* the written tables assembled from more than one page
MultiPage(w) == Len(w.pdf_pages) >= 2

\* C18 as stated: every table of more than one page is written while its
\* last contributing page, the last page of its pdf_pages, is processed.
C18_Original ==
  \A i \in 1..Len(table_writes) :
    MultiPage(table_writes[i])
      => table_writes[i].page = Last(table_writes[i].pdf_pages)

\* C18: a table of more than one page is written while its last
\* contributing page is processed when the last contributing grid does not
\* touch the page bottom.  When that grid touches the bottom the table stays
\* pending over the end of the page, and it is written, unchanged, while the
\* page after its last contributing page is processed.
C18_WrittenOnLastPageOrTheNext ==
  [][/\ AtContinuation =>
          \A i \in ProvenEntries :
            (/\ ProvenEntries = {i}
             /\ table_entries[i].rotation = pending_table.rotation
             /\ ~table_entries[i].touches_bottom)
            => /\ Len(NewTableWrites) = 1
               /\ NewTableWrites[1].page = page_num
               /\ Last(NewTableWrites[1].pdf_pages) = page_num
     /\ \A j \in 1..Len(NewTableWrites) :
          MultiPage(NewTableWrites[j])
            => \/ NewTableWrites[j].page = Last(NewTableWrites[j].pdf_pages)
               \/ /\ NewTableWrites[j].page = Last(NewTableWrites[j].pdf_pages) + 1
                  /\ pending_table # NoTable
                  /\ NewTableWrites[j] = PendingWrite(pending_table, page_num')
     /\ (pc = "lines" /\ pc' # "lines" /\ pending_table # NoTable)
          => Last(pending_table.pdf_pages) = page_num]_vars

\* a table of pages 1 and 2 whose second grid touched the bottom was written
\* while page 3 was processed
C18_Witness ==
  /\ page_num = 3
  /\ \E i \in 1..Len(table_writes) :
       /\ table_writes[i].pdf_pages = <<1, 2>>
       /\ table_writes[i].page = 3

\* a table of pages 1 and 2 was written while page 2 was processed
C18_WitnessAtOnce ==
  \E i \in 1..Len(table_writes) :
    /\ table_writes[i].pdf_pages = <<1, 2>>
    /\ table_writes[i].page = 2

\* ----------------------------------------------------- order of the writes
\* the start page of a written section: pdf_pages is start_page..end_page
StartPageOf(w) == w.pdf_pages[1]

NewSectionWrites ==
  SubText(section_writes', Len(section_writes) + 1, Len(section_writes'))

\* C19 as stated: over the whole run the write_section calls are
\* non-decreasing in the start page of the written section.
C19_Original ==
  \A i, j \in 1..Len(section_writes) :
    i < j => StartPageOf(section_writes[i]) <= StartPageOf(section_writes[j])

\* C19: sections are written in stack-pop order.  The sections a step
\* writes are the topmost entries of the stack, the top first, and the
\* entries below them stay open; since an entry lies above the entries
\* opened before it, the start pages of the sections written by one step
\* are non-increasing.
C19_WrittenInPopOrder ==
  [][\E k \in {Len(NewSectionWrites)} :
       /\ k <= Len(section_stack)
       /\ \A i \in 1..k :
            NewSectionWrites[i] = SectionWrite(section_stack[Len(section_stack) + 1 - i])
       /\ Len(section_stack') >= Len(section_stack) - k
       /\ SubText(StackIds(section_stack'), 1, Len(section_stack) - k)
            = SubText(StackIds(section_stack), 1, Len(section_stack) - k)
       /\ \A i, j \in 1..k :
            i < j => StartPageOf(NewSectionWrites[i]) >= StartPageOf(NewSectionWrites[j])]_vars

\* the run ended well after writing a section that starts on page 2 before
\* the section that contains it and starts on page 1
C19_Witness ==
  /\ pc = "done"
  /\ \E i, j \in 1..Len(section_writes) :
       /\ i < j
       /\ StartPageOf(section_writes[i]) = 2
       /\ StartPageOf(section_writes[j]) = 1

\* C20: in every written table each body row has as many cells as there are
\* column headers, the tables merged from several pages included.
C20_RowsMatchColumns ==
  \A i \in 1..Len(table_writes) :
    \A r \in 1..Len(table_writes[i].rows) :
      Len(table_writes[i].rows[r]) = Len(table_writes[i].columns)

\* the same for the tables written from one page
C20_SinglePageRowsMatchColumns ==
  \A i \in 1..Len(table_writes) :
    Len(table_writes[i].pdf_pages) = 1 =>
      \A r \in 1..Len(table_writes[i].rows) :
        Len(table_writes[i].rows[r]) = Len(table_writes[i].columns)

\* ------------------------------------------------------------ page regions
\* C21: a word is put in exactly one of the classes header band, footer
\* band, table interior and body, whatever its position and height.
C21_ExactlyOneClass ==
  word_classes # Unclassified => Cardinality(word_classes) = 1

\* every word is put in at least one class
C21_EveryWordClassified ==
  word_classes # Unclassified => word_classes # {}

\* --------------------------------------------------------- amendment scan
\* the words of a text: its maximal runs of word characters, in upper case
WordsOfText(t) ==
  {ToUpper(SubText(t, i, RunEnd(t, i, WordChars) - 1)) :
     i \in {k \in 1..Len(t) :
              /\ t[k] \in WordChars
              /\ (k = 1 \/ t[k - 1] \notin WordChars)}}

\* the header or the footer band of the current page has an amendment
\* keyword as a whole word
BandsHaveKeyword ==
  (WordsOfText(header_text) \cup WordsOfText(footer_text)) \cap AmendmentKeywords # {}

\* C22: a page whose header or footer band has an amendment keyword ends
\* the run with RULE=AMENDMENT_SCAN PDF_PAGE=<that page>, and at that moment
\* the run has written no section file and no table file.
C22_AmendmentFailsBeforeOutputs ==
  BandsHaveKeyword =>
    /\ pc = "failed"
    /\ error = format_error("AMENDMENT_SCAN", page_num)
    /\ section_writes = <<>>
    /\ table_writes = <<>>

\* the failure itself: rule and page
C22_AmendmentIsFatal ==
  BandsHaveKeyword =>
    /\ pc = "failed"
    /\ error = format_error("AMENDMENT_SCAN", page_num)

\* ------------------------------------------------------------ parse report
\* C23: when the run has ended with a fatal error, the parse report is on
\* disk, holds the entries of the pages 1..n up to the failing page n, and
\* the last entry carries the error message.
C23_ReportCarriesTheFailure ==
  pc = "failed" =>
    /\ report.written
    /\ report.pages # <<>>
    /\ \A i \in 1..Len(report.pages) : report.pages[i].pdf_page = i
    /\ Last(report.pages).errors = <<error>>

\* the same for the failures raised while a page is processed
C23_PageFailureIsReported ==
  [][(pc' = "failed" /\ pc # "flush") =>
       /\ report'.written
       /\ Len(report'.pages) = page_num'
       /\ \A i \in 1..Len(report'.pages) : report'.pages[i].pdf_page = i
       /\ Last(report'.pages).errors = <<error'>>]_vars

\* ------------------------------------------------------------ error tagging
\* the line of a line-loop step is a heading with the id of the section on
\* top of the stack, and is not excluded from section text
RepeatsTopId(line) ==
  /\ section_stack # <<>>
  /\ parse_section_marker_line(line.text) = NoId
  /\ parse_true_section_heading(line.text) = Last(section_stack).id
  /\ ~HeadingExcluded(line)

\* C24: every fatal error is reported tagged, RULE=<KIND> PDF_PAGE=<n>, with
\* the rule that detected the problem and the page that produced it; a
\* heading that repeats the id of the open section ends the run under the
\* rule SECTION_APPEND_VIOLATION.
C24_ErrorsCarryTheirRule ==
  [][/\ pc' = "failed"
          => /\ error'.tagged
             /\ error'.page \in 1..page_end
             /\ error'.rule # "UNHANDLED_EXCEPTION"
     /\ (IsLineStep /\ ~OnTocPage /\ RepeatsTopId(cur_line'))
          => /\ pc' = "failed"
             /\ error' = format_error("SECTION_APPEND_VIOLATION", page_num)]_vars

\* the same without the failures the code raises as bare messages: every
\* failure of the section traversal is tagged with the current page
C24_ErrorsCarryThePage ==
  [][pc' = "failed" => (error'.tagged /\ error'.page = page_num')]_vars

\* --------------------------------------------------------- rotation choice
\* the top-ranked rotation and the one ranked next
BestResult == SortedResult(rotation_results, Len(rotation_results))

SecondResult == SortedResult(rotation_results, Len(rotation_results) - 1)

\* the two top-ranked rotations are equal on orientation score, intersection
\* count and area
TopTwoTie == SameEvidence(BestResult, SecondResult)

\* the tables the rotation r detected
TablesOf(r) == (CHOOSE c \in Range(rotation_results) : c.rotation = r).candidates

\* the outcome is the rotation r with the tables detected in it
Chose(r, warning) ==
  /\ rotation_choice.error = "NONE"
  /\ rotation_choice.chosen_rotation = r
  /\ rotation_choice.tables = TablesOf(r)
  /\ rotation_choice.warning = warning

\* C25 as stated: the rotation is the greatest under the ranking
\* (orientation_score, total_intersections, total_area, -rotation); when the
\* two top-ranked rotations are equal on score, intersections and area, the
\* result is rotation 0 with a warning if that score is 0 and the failure
\* TABLE_ROTATION_AMBIGUOUS in every other case; the tables returned are
\* those detected in the chosen rotation.
C25_Original ==
  rotation_choice.done =>
    IF TopTwoTie
    THEN IF BestResult.orientation_score = 0
         THEN Chose(0, TRUE)
         ELSE rotation_choice.error = "TABLE_ROTATION_AMBIGUOUS"
    ELSE Chose(BestResult.rotation, FALSE)

\* C25, amended: the tie rules apply when the top-ranked rotation found a grid
\* (its intersection count is positive); a page on which no rotation found a
\* grid gets rotation 0 and no tables, without a warning.
C25_RotationChoice ==
  rotation_choice.done =>
    IF BestResult.total_intersections <= 0
    THEN /\ Chose(0, FALSE)
         /\ rotation_choice.tables = <<>>
    ELSE IF TopTwoTie
         THEN IF BestResult.orientation_score = 0
              THEN Chose(0, TRUE)
              ELSE rotation_choice.error = "TABLE_ROTATION_AMBIGUOUS"
         ELSE Chose(BestResult.rotation, FALSE)

\* a tie of score 0 between the rotations 90 and 270, which both found a
\* grid, was settled as rotation 0 with a warning
C25_Witness ==
  /\ rotation_choice.done
  /\ TopTwoTie
  /\ BestResult.rotation = 90
  /\ SecondResult.rotation = 270
  /\ BestResult.total_intersections > 0
  /\ BestResult.orientation_score = 0
  /\ Chose(0, TRUE)

\* ------------------------------------------------------ section file layout
\* the text of the file a write_section call leaves on disk
FileOf(w) == write_section(w.id, CurrentChapter, w.pdf_pages, w.lines)

StartsWith(text, prefix) ==
  /\ Len(text) >= Len(prefix)
  /\ SubText(text, 1, Len(prefix)) = prefix

\* the first three lines are the header lines PDF_PAGE, SECTION_ID, SECTION
HeaderLinesFirst(file_lines) ==
  /\ Len(file_lines) >= 3
  /\ StartsWith(file_lines[1], <<"P","D","F","_","P","A","G","E",":"," ">>)
  /\ StartsWith(file_lines[2], <<"S","E","C","T","I","O","N","_","I","D",":"," ">>)
  /\ StartsWith(file_lines[3], <<"S","E","C","T","I","O","N",":"," ">>)

\* C26: every written section file is the three header lines PDF_PAGE,
\* SECTION_ID and SECTION, then one blank line, then the body lines in the
\* order they were attributed; what the integrity enforcer takes as the body
\* (everything after the first blank line) is exactly the attributed lines.
C26_HeaderBlankBody ==
  \A k \in 1..Len(section_writes) :
    \E w \in {section_writes[k]} :
    \E file_lines \in {SplitLines(FileOf(w))} :
      /\ HeaderLinesFirst(file_lines)
      /\ Len(file_lines) = 4 + Len(w.lines)
      /\ file_lines[4] = <<>>
      /\ SubText(file_lines, 5, Len(file_lines)) = w.lines
      /\ IntegrityBodyLines(FileOf(w)) = w.lines

\* the same without the blank line: the header lines are directly followed
\* by the attributed body lines, in their order
C26_HeaderThenBody ==
  \A k \in 1..Len(section_writes) :
    \E w \in {section_writes[k]} :
    \E file_lines \in {SplitLines(FileOf(w))} :
      /\ HeaderLinesFirst(file_lines)
      /\ SubText(file_lines, 4, Len(file_lines)) = w.lines

\* ------------------------------------------------- pending tables and pages
\* pages is a run of consecutive ascending page numbers, which
\* format_pdf_pages renders without raising PDF_PAGE_RANGE
ConsecutivePages(pages) ==
  /\ pages # <<>>
  /\ pages = PageRange(pages[1], Last(pages))
  /\ format_pdf_pages(pages) # <<>>

\* C27: a table that is pending when a page ends is resolved while the next
\* page is processed (merged with a grid of that page, written, or the run
\* fails), never carried unchanged across a page: once the table phase of a
\* page is over, a pending table has that page as its last page.  The
\* pdf_pages of every written table and the page range of every written
\* section are runs of consecutive ascending pages, so that format_pdf_pages
\* does not raise PDF_PAGE_RANGE at emission.
C27_PendingResolvedOnNextPage ==
  /\ pending_table # NoTable =>
       /\ ConsecutivePages(pending_table.pdf_pages)
       /\ Last(pending_table.pdf_pages) \in {page_num - 1, page_num}
       /\ pc \in {"lines", "page", "flush", "done"} =>
            Last(pending_table.pdf_pages) = page_num
  /\ \A i \in 1..Len(table_writes) :
       /\ ConsecutivePages(table_writes[i].pdf_pages)
       /\ Last(table_writes[i].pdf_pages) \in
            {table_writes[i].page - 1, table_writes[i].page}
  /\ \A i \in 1..Len(section_writes) :
       ConsecutivePages(section_writes[i].pdf_pages)

\* a table pending at the end of page 1 and again at the end of page 2 was
\* written with the pages 1, 2, 3, and another one, pending at the end of a
\* page, was written on the next page as it was
C27_Witness ==
  /\ pc = "lines"
  /\ page_num = 3
  /\ pending_table = NoTable
  /\ \E i \in 1..Len(table_writes) :
       /\ table_writes[i].pdf_pages = <<1, 2, 3>>
       /\ table_writes[i].page = 3

\* a table pending at the end of page 1 is written, unchanged, on page 2
C27_WitnessWritten ==
  /\ page_num = 2
  /\ pending_table = NoTable
  /\ \E i \in 1..Len(table_writes) :
       /\ table_writes[i].pdf_pages = <<1>>
       /\ table_writes[i].page = 2

\* ------------------------------------------------------ table rows are kept
\* the number of body rows held by a list of grids, entries or writes
RECURSIVE SumRows(_)
SumRows(tables) ==
  IF tables = <<>> THEN 0
  ELSE Len(Head(tables).rows) + SumRows(Tail(tables))

PendingRows == IF pending_table = NoTable THEN 0 ELSE Len(pending_table.rows)

\* the body rows of the current page that are neither written nor pending
\* yet: the grids of the page before the continuation block, the entries
\* left after it
OutstandingRows ==
  IF pc = "bind" THEN SumRows(page_tables)
  ELSE IF pc = "emit" THEN SumRows(table_entries)
  ELSE 0

\* every body row extracted so far: written, pending or outstanding
AccountedRows == SumRows(table_writes) + PendingRows + OutstandingRows

\* C28: while the run has not failed, table rows are neither dropped nor
\* duplicated: each step keeps the rows written, pending and outstanding, a
\* new page adding the body rows of its accepted grids; when the run is done
\* every one of these rows is in exactly one write_table call, so the rows
\* written are the rows extracted.
C28_RowsConserved ==
  [][pc' # "failed" =>
       /\ AccountedRows' =
            AccountedRows + (IF page_num' # page_num THEN SumRows(page_tables')
                             ELSE 0)
       /\ pc' = "done" => SumRows(table_writes') = AccountedRows']_vars

\* a run is done; a table whose rows come from the grids of two pages was
\* written, and the rows of three grids are in the writes
C28_Witness ==
  /\ pc = "done"
  /\ SumRows(table_writes) >= 3
  /\ \E i \in 1..Len(table_writes) :
       /\ MultiPage(table_writes[i])
       /\ Len(table_writes[i].rows) = 2

\* -------------------------------------------------- headings are not dropped
\* the step pushed a new entry for the heading line: its id, the heading text
\* as first body line, the current page as start and end page
PushedFor(line) ==
  /\ section_stack' # <<>>
  /\ Last(section_stack').id = parse_true_section_heading(line.text)
  /\ Last(section_stack').lines = <<line.text>>
  /\ Last(section_stack').start_page = page_num
  /\ Last(section_stack').end_page = page_num
  /\ parse_true_section_heading(line.text) \in DOMAIN section_occurrences'

\* C29: on a page that is not a TABLE OF CONTENTS page, a line whose text
\* parses as a section heading is never silently dropped: the step either
\* pushes a new stack entry for its id, with the heading text as first body
\* line and the current page as start and end page, or ends the run with a
\* fatal error: SECTION_HEADER_SKIPPED when the line is a spanning reference,
\* a bound table label or a table footnote, and otherwise only for a heading
\* that repeats the id on top of the stack (SECTION_APPEND_VIOLATION) or an
\* id accepted before (SECTION_DUPLICATE).
C29_HeadingNeverDropped ==
  [][(/\ IsLineStep
      /\ ~OnTocPage
      /\ parse_true_section_heading(cur_line'.text) # NoId)
       => IF HeadingExcluded(cur_line')
          THEN /\ pc' = "failed"
               /\ error'.rule = "SECTION_HEADER_SKIPPED"
          ELSE IF pc' = "failed"
          THEN \/ RepeatsTopId(cur_line')
               \/ /\ RepeatsAcceptedId(cur_line')
                  /\ error'.rule = "SECTION_DUPLICATE"
          ELSE PushedFor(cur_line')]_vars

\* a heading line was read below an open section and opened a nested one
C29_Witness ==
  /\ pc = "lines"
  /\ ~OnTocPage
  /\ cur_line # NoLine
  /\ parse_true_section_heading(cur_line.text) # NoId
  /\ Len(section_stack) >= 2
  /\ Last(section_stack).id = parse_true_section_heading(cur_line.text)
  /\ Last(section_stack).lines = <<cur_line.text>>
  /\ Last(section_stack).start_page = page_num

\* a heading line taken as a table footnote ended the run
C29_WitnessSkipped ==
  /\ pc = "failed"
  /\ error.rule = "SECTION_HEADER_SKIPPED"
  /\ parse_true_section_heading(cur_line.text) # NoId
  /\ cur_line.in_footnote_tops

\* ------------------------------------------------------ rotation round trip
ValidRotation == bbox_input.rotation \in {0, 90, 270}

\* the rotated bbox lies inside the rotated page
InsideRotatedPage ==
  \E dims \in {rotation_dimensions(bbox_input.width, bbox_input.height,
                                   bbox_input.rotation)} :
    /\ 0 <= bbox_output.rotated[1]
    /\ bbox_output.rotated[1] <= bbox_output.rotated[3]
    /\ bbox_output.rotated[3] <= dims[1]
    /\ 0 <= bbox_output.rotated[2]
    /\ bbox_output.rotated[2] <= bbox_output.rotated[4]
    /\ bbox_output.rotated[4] <= dims[2]

\* the subtractions the rotation makes on the bbox give exact results
ExactDifferences ==
  CASE bbox_input.rotation = 90 ->
         /\ Representable(bbox_input.height - bbox_input.bbox[2])
         /\ Representable(bbox_input.height - bbox_input.bbox[4])
    [] bbox_input.rotation = 270 ->
         /\ Representable(bbox_input.width - bbox_input.bbox[1])
         /\ Representable(bbox_input.width - bbox_input.bbox[3])
    [] OTHER -> TRUE

\* each coordinate of the restored bbox is within one unit in the last place
\* of the page size of the original
RestoredWithinRounding ==
  \A i \in 1..4 :
    Abs(bbox_output.restored[i] - bbox_input.bbox[i])
      <= Ulp(Max(bbox_input.width, bbox_input.height))

\* C30 as stated: for every rotation in {0, 90, 270}, every page size and
\* every bbox b inside the page, unrotate_bbox(rotate_bbox(b)) = b and the
\* rotated bbox lies inside the rotated page; any other rotation fails with
\* ROTATION_INVALID.
C30_Original ==
  bbox_output.done =>
    IF ValidRotation
    THEN /\ bbox_output.error = "NONE"
         /\ bbox_output.restored = bbox_input.bbox
         /\ InsideRotatedPage
    ELSE bbox_output.error = "ROTATION_INVALID"

\* C30, amended: the round trip gives b back exactly for rotation 0 and, for
\* 90 and 270, whenever the differences the rotation takes (height - top and
\* height - bottom, or width - x0 and width - x1) are exact in float
\* arithmetic; in every case each coordinate comes back within the rounding
\* of these differences and the rotated bbox lies inside the rotated page;
\* any other rotation fails with ROTATION_INVALID.
C30_RoundTripUpToRounding ==
  bbox_output.done =>
    IF ValidRotation
    THEN /\ bbox_output.error = "NONE"
         /\ ExactDifferences => bbox_output.restored = bbox_input.bbox
         /\ RestoredWithinRounding
         /\ InsideRotatedPage
    ELSE bbox_output.error = "ROTATION_INVALID"

\* a bbox with four different sides on a page higher than wide was turned by
\* 270 degrees and came back as it was
C30_Witness ==
  /\ bbox_output.done
  /\ bbox_input.rotation = 270
  /\ bbox_input.width < bbox_input.height
  /\ bbox_input.bbox[1] < bbox_input.bbox[3]
  /\ bbox_input.bbox[2] < bbox_input.bbox[4]
  /\ bbox_input.bbox[1] # bbox_input.bbox[2]
  /\ bbox_output.error = "NONE"
  /\ bbox_output.rotated # bbox_input.bbox
  /\ bbox_output.restored = bbox_input.bbox

\* a bbox turned by 90 degrees came back with another top
C30_WitnessRounded ==
  /\ bbox_output.done
  /\ bbox_input.rotation = 90
  /\ bbox_output.error = "NONE"
  /\ bbox_output.restored # bbox_input.bbox

====
